---------------------------- MODULE Spec2Model ----------------------------
(***************************************************************************)
(* Model of the MCP accessibility evaluator: the WCAG compliance           *)
(* calculator (wcag-compliance-checker.ts), the rule executor of           *)
(* AccessibilityEvaluator.evaluateHTML, the check_wcag_compliance tool     *)
(* handler of the server (index.ts) and ARIAValidator.validate             *)
(* (aria-validator.ts).                                                    *)
(*                                                                         *)
(* JavaScript strings that the code inspects (issue rules, passed-check    *)
(* names, criterion ids and names, WCAG levels) are sequences of           *)
(* one-character strings, so that startsWith, replace, includes,           *)
(* toLowerCase and the relational operators are computed character by      *)
(* character as the code computes them.                                    *)
(***************************************************************************)
EXTENDS Integers, Sequences, FiniteSets, TLC

VARIABLES
  pc,                \* where the caller or the tool handler stands
  evaluationResult,  \* the EvaluationResult handed to evaluateCompliance
  targetLevel,       \* the targetLevel argument of evaluateCompliance
  outcome,           \* what evaluateCompliance did: threw, or the report
  document,          \* the document given to evaluateHTML (html argument)
  evaluation,        \* what evaluateHTML did: threw, or the EvaluationResult
  args,              \* the arguments of the tool call
  config,            \* ConfigLoader.config, the cached configuration
  toolResponse,      \* what the CallTool handler returned
  validator,         \* the fields of the server's ARIAValidator
  validation,        \* the last validate call: its document and what it did
  firstValidation,   \* the first validate call on this validator
  callsOnOthers,     \* validate calls since on documents other than its document
  ruleCheck,         \* a call of one rule's check: rule, document, what it did
  configPaths,       \* ConfigLoader.configPaths
  cachedSearchPaths, \* ConfigLoader.cachedSearchPaths
  world,             \* the config files and the environment of the process
  loaderCall,        \* the last call on the ConfigLoader and what it did
  fetchCall          \* a call of fetchWCAGGuidelines: the sites and what it did

\* the variables of the validator, and the others
validatorVars == <<validator, validation, firstValidation, callsOnOthers>>
checkerVars == <<evaluationResult, targetLevel, outcome, document, evaluation,
                 args, config, toolResponse>>

\* the variables of the calls of single operations
unitVars == <<ruleCheck, configPaths, cachedSearchPaths, world, loaderCall,
              fetchCall>>

vars == <<pc, evaluationResult, targetLevel, outcome, document, evaluation,
          args, config, toolResponse, validator, validation, firstValidation,
          callsOnOthers, ruleCheck, configPaths, cachedSearchPaths, world,
          loaderCall, fetchCall>>

----------------------------------------------------------------------------
(* Bounds of the model.                                                    *)

MaxIssues == 2       \* issues of an EvaluationResult built by a direct caller
MaxChecks == 2       \* passedChecks of an EvaluationResult built by a caller
MaxElements == 2     \* elements of a document given to evaluateHTML
MaxToolElements == 1 \* elements of a document given to the tool
MaxViolations == 1   \* violations axe-core reports for the document
MaxNodes == 3        \* elements of a document given to validate
MaxOtherCalls == 2   \* validate calls on other documents after the first call
MaxRuleElements == 3 \* elements of a document given to the check of one rule

----------------------------------------------------------------------------
(* JavaScript values and string operations.                                *)

Range(s) == { s[i] : i \in DOMAIN s }

\* undefined and null: values that are no string (no sequence of characters)
Undefined == <<"undefined">>
Null == <<"null">>

\* null where the code holds an object
NullObject == [null |-> TRUE]

\* the characters of the model in code-unit order (the order of < on strings)
AsciiOrder ==
  <<" ", "(", ")", "-", ".", "0", "1", "2", "3", "4", "5", "6", "7", "8", "9",
    ":", "A", "B", "C", "D", "E", "F", "G", "H", "I", "J", "K", "L", "M", "N",
    "O", "P", "Q", "R", "S", "T", "U", "V", "W", "X", "Y", "Z",
    "a", "b", "c", "d", "e", "f", "g", "h", "i", "j", "k", "l", "m", "n",
    "o", "p", "q", "r", "s", "t", "u", "v", "w", "x", "y", "z">>

Chars == Range(AsciiOrder)

CharCode == [c \in Chars |-> CHOOSE i \in DOMAIN AsciiOrder : AsciiOrder[i] = c]

UpperCase ==
  <<"A", "B", "C", "D", "E", "F", "G", "H", "I", "J", "K", "L", "M", "N",
    "O", "P", "Q", "R", "S", "T", "U", "V", "W", "X", "Y", "Z">>

LowerCase ==
  <<"a", "b", "c", "d", "e", "f", "g", "h", "i", "j", "k", "l", "m", "n",
    "o", "p", "q", "r", "s", "t", "u", "v", "w", "x", "y", "z">>

Whitespace == {" "}

\* a falsy operand of || : undefined, null or the empty string
Falsy(v) == v = Undefined \/ v = Null \/ v = <<>>

\* a || b
Or(a, b) == IF Falsy(a) THEN b ELSE a

\* String.prototype.startsWith
StartsWith(s, prefix) ==
  /\ Len(prefix) <= Len(s)
  /\ SubSeq(s, 1, Len(prefix)) = prefix

\* String.prototype.indexOf: 0-based position of the first occurrence, or -1
IndexOf(s, sub) ==
  LET hits == { i \in 0..(Len(s) - Len(sub)) : SubSeq(s, i + 1, i + Len(sub)) = sub }
  IN IF hits = {} THEN -1
     ELSE CHOOSE i \in hits : \A j \in hits : i <= j

\* String.prototype.includes
Includes(s, sub) == IndexOf(s, sub) # -1

\* String.prototype.replace with a string pattern: the first occurrence only
ReplaceFirst(s, pattern, replacement) ==
  LET at == IndexOf(s, pattern)
  IN IF at = -1 THEN s
     ELSE SubSeq(s, 1, at) \o replacement \o SubSeq(s, at + Len(pattern) + 1, Len(s))

\* String.prototype.toLowerCase
ToLowerCase(s) ==
  [i \in DOMAIN s |->
     IF \E k \in DOMAIN UpperCase : UpperCase[k] = s[i]
     THEN LowerCase[CHOOSE k \in DOMAIN UpperCase : UpperCase[k] = s[i]]
     ELSE s[i]]

\* String.prototype.replace(/\s+/g, replacement): every maximal run of
\* whitespace becomes one replacement
RECURSIVE ReplaceWhitespaceRuns(_, _)
ReplaceWhitespaceRuns(s, replacement) ==
  IF s = <<>> THEN <<>>
  ELSE IF Head(s) \in Whitespace
       THEN IF Len(s) > 1 /\ s[2] \in Whitespace
            THEN ReplaceWhitespaceRuns(Tail(s), replacement)
            ELSE replacement \o ReplaceWhitespaceRuns(Tail(s), replacement)
       ELSE <<Head(s)>> \o ReplaceWhitespaceRuns(Tail(s), replacement)

\* a >= b on two strings: comparison by code units, a proper prefix is smaller
RECURSIVE StringGE(_, _)
StringGE(a, b) ==
  IF b = <<>> THEN TRUE
  ELSE IF a = <<>> THEN FALSE
  ELSE IF Head(a) = Head(b) THEN StringGE(Tail(a), Tail(b))
  ELSE CharCode[Head(a)] > CharCode[Head(b)]

\* Array.prototype.indexOf: 0-based position of the first equal element, or -1
ArrayIndexOf(array, v) ==
  IF \E i \in DOMAIN array : array[i] = v
  THEN (CHOOSE i \in DOMAIN array : array[i] = v /\ \A j \in 1..(i - 1) : array[j] # v) - 1
  ELSE -1

\* Math.round of the non-negative quotient num / den: half rounds up
MathRound(num, den) == (2 * num + den) \div (2 * den)

----------------------------------------------------------------------------
(* The WCAG criteria catalog, in the insertion order of the Map.            *)

criteria ==
  <<
    [id        |-> <<"1",".","1",".","1">>,
     name      |-> <<"N","o","n","-","t","e","x","t"," ","C","o","n","t","e","n","t">>,
     level     |-> <<"A">>,
     principle |-> "Perceivable"],
    [id        |-> <<"1",".","2",".","1">>,
     name      |-> <<"A","u","d","i","o","-","o","n","l","y"," ","a","n","d"," ","V","i","d","e","o","-","o","n","l","y"," ","(","P","r","e","r","e","c","o","r","d","e","d",")">>,
     level     |-> <<"A">>,
     principle |-> "Perceivable"],
    [id        |-> <<"1",".","3",".","1">>,
     name      |-> <<"I","n","f","o"," ","a","n","d"," ","R","e","l","a","t","i","o","n","s","h","i","p","s">>,
     level     |-> <<"A">>,
     principle |-> "Perceivable"],
    [id        |-> <<"1",".","4",".","1">>,
     name      |-> <<"U","s","e"," ","o","f"," ","C","o","l","o","r">>,
     level     |-> <<"A">>,
     principle |-> "Perceivable"],
    [id        |-> <<"2",".","1",".","1">>,
     name      |-> <<"K","e","y","b","o","a","r","d">>,
     level     |-> <<"A">>,
     principle |-> "Operable"],
    [id        |-> <<"2",".","4",".","1">>,
     name      |-> <<"B","y","p","a","s","s"," ","B","l","o","c","k","s">>,
     level     |-> <<"A">>,
     principle |-> "Operable"],
    [id        |-> <<"3",".","1",".","1">>,
     name      |-> <<"L","a","n","g","u","a","g","e"," ","o","f"," ","P","a","g","e">>,
     level     |-> <<"A">>,
     principle |-> "Understandable"],
    [id        |-> <<"4",".","1",".","1">>,
     name      |-> <<"P","a","r","s","i","n","g">>,
     level     |-> <<"A">>,
     principle |-> "Robust"],
    [id        |-> <<"1",".","4",".","3">>,
     name      |-> <<"C","o","n","t","r","a","s","t"," ","(","M","i","n","i","m","u","m",")">>,
     level     |-> <<"A","A">>,
     principle |-> "Perceivable"],
    [id        |-> <<"1",".","4",".","5">>,
     name      |-> <<"I","m","a","g","e","s"," ","o","f"," ","T","e","x","t">>,
     level     |-> <<"A","A">>,
     principle |-> "Perceivable"],
    [id        |-> <<"2",".","4",".","6">>,
     name      |-> <<"H","e","a","d","i","n","g","s"," ","a","n","d"," ","L","a","b","e","l","s">>,
     level     |-> <<"A","A">>,
     principle |-> "Operable"],
    [id        |-> <<"3",".","3",".","3">>,
     name      |-> <<"E","r","r","o","r"," ","S","u","g","g","e","s","t","i","o","n">>,
     level     |-> <<"A","A">>,
     principle |-> "Understandable"],
    [id        |-> <<"1",".","4",".","6">>,
     name      |-> <<"C","o","n","t","r","a","s","t"," ","(","E","n","h","a","n","c","e","d",")">>,
     level     |-> <<"A","A","A">>,
     principle |-> "Perceivable"],
    [id        |-> <<"2",".","4",".","9">>,
     name      |-> <<"L","i","n","k"," ","P","u","r","p","o","s","e"," ","(","L","i","n","k"," ","O","n","l","y",")">>,
     level     |-> <<"A","A","A">>,
     principle |-> "Operable"],
    [id        |-> <<"3",".","1",".","5">>,
     name      |-> <<"R","e","a","d","i","n","g"," ","L","e","v","e","l">>,
     level     |-> <<"A","A","A">>,
     principle |-> "Understandable"]
  >>

LevelA == <<"A">>
LevelAA == <<"A", "A">>
LevelAAA == <<"A", "A", "A">>
LevelNone == <<"N", "o", "n", "e">>

\* the keys of the Map
criteriaIds == { criteria[i].id : i \in DOMAIN criteria }

\* a function's result: it threw, or it returned value
Threw == [threw |-> TRUE, value |-> Undefined]
Returned(v) == [threw |-> FALSE, value |-> v]


----------------------------------------------------------------------------
(* The DOM access layer (cheerio) as the rules and the validator use it.   *)
(* A parsed document is the sequence of its elements in document order;    *)
(* an element has a tag, the depth at which it is nested and its           *)
(* attributes. Tags and attribute values are character sequences.          *)

NoAttrs == [name \in {} |-> <<>>]

Element(tag, depth, attrs) == [tag |-> tag, depth |-> depth, attrs |-> attrs]

\* $el.attr(name): undefined for an attribute the element does not carry
attr(el, name) ==
  IF name \in DOMAIN el.attrs THEN el.attrs[name] ELSE Undefined

\* $(selector): the matching elements (their positions) in document order
select(elements, matches) ==
  SelectSeq([i \in DOMAIN elements |-> i], LAMBDA i : matches[elements[i]])

\* the position of the parent element, 0 for an element at the top
parentIndex(elements, i) ==
  IF elements[i].depth = 0 THEN 0
  ELSE LET above == { j \in 1..(i - 1) : elements[j].depth = elements[i].depth - 1 }
       IN CHOOSE j \in above : \A k \in above : k <= j

\* ancestorsOrSelf that stops at the parent
ancestorsOrSelf_parentOnly(elements, i) ==
  IF i = 0 THEN {}
  ELSE {i, parentIndex(elements, i)} \ {0}

RECURSIVE ancestorsOrSelf(_, _)
ancestorsOrSelf(elements, i) ==
  IF i = 0 THEN {}
  ELSE {i} \cup ancestorsOrSelf(elements, parentIndex(elements, i))

\* $el.closest(selector).length > 0: the element or one of its ancestors
\* matches
closest(elements, i, matches) ==
  \E j \in ancestorsOrSelf(elements, i) : matches[elements[j]]

\* $el.find(selector).length > 0: a descendant matches
find(elements, i, matches) ==
  \E j \in DOMAIN elements :
    j # i /\ i \in ancestorsOrSelf(elements, j) /\ matches[elements[j]]

\* String.prototype.split(separator) for a one-character separator: the
\* pieces between the separators, empty pieces included
RECURSIVE Split(_, _)
Split(s, separator) ==
  LET at == IndexOf(s, <<separator>>)
  IN IF at = -1 THEN <<s>>
     ELSE <<SubSeq(s, 1, at)>> \o Split(SubSeq(s, at + 2, Len(s)), separator)

\* the characters a selector parser reads as part of a name
NameChars ==
  Range(UpperCase) \cup Range(LowerCase)
  \cup {"0", "1", "2", "3", "4", "5", "6", "7", "8", "9", "-", "_"}

\* the longest prefix of s made of name characters
RECURSIVE NamePrefix(_)
NamePrefix(s) ==
  IF s = <<>> \/ Head(s) \notin NameChars THEN <<>>
  ELSE <<Head(s)>> \o NamePrefix(Tail(s))

\* parsing the selector `[name="${value}"]`: the value is read up to the
\* next quotation mark, after which only `]` may follow
quotedAttributeSelector(value) ==
  IF Includes(value, <<"\"">>) \/ Includes(value, <<"\\">>) THEN Threw
  ELSE Returned(value)

\* parsing the selector `#${token}`: a name is required after `#`; a
\* following `.name` is a class condition; a following pseudo-class no
\* engine knows, or any other character, is rejected
idSelector(token) ==
  LET name == NamePrefix(token)
      rest == SubSeq(token, Len(name) + 1, Len(token))
  IN IF name = <<>> THEN Threw
     ELSE IF rest = <<>> THEN Returned([id |-> name, class |-> Undefined])
     ELSE IF /\ Head(rest) = "."
             /\ Len(rest) > 1
             /\ NamePrefix(Tail(rest)) = Tail(rest)
     THEN Returned([id |-> name, class |-> Tail(rest)])
     ELSE Threw

\* the element satisfies a parsed `#id` or `#id.class` selector
matchesIdSelector(el, parsed) ==
  /\ attr(el, "id") = parsed.id
  /\ \/ parsed.class = Undefined
     \/ /\ attr(el, "class") # Undefined
        /\ parsed.class \in Range(Split(attr(el, "class"), " "))

----------------------------------------------------------------------------
(* AccessibilityEvaluator: the rule registries and evaluateHTML.            *)
(* A document is its elements and what axe-core, the collaborator, does    *)
(* with it.                                                                *)

NoValue == "undefined"
NullValue == "null"

\* the issue a rule pushes for one rejected element
RuleIssue(type, rule, standard, level, impact) ==
  [type |-> type, rule |-> rule, standard |-> standard, level |-> level,
   impact |-> impact]

\* wcagRules and ariaRules, in the insertion order of the Maps
wcagRules ==
  << <<"i","m","a","g","e","s","-","a","l","t","-","t","e","x","t">>,
     <<"h","e","a","d","i","n","g","s","-","s","t","r","u","c","t","u","r","e">>,
     <<"f","o","r","m","-","l","a","b","e","l","s">> >>

ariaRules ==
  << <<"a","r","i","a","-","r","e","q","u","i","r","e","d","-","a","t","t","r">>,
     <<"a","r","i","a","-","v","a","l","i","d","-","v","a","l","u","e","s">> >>

ImagesAltTextIssue == RuleIssue("error", <<"W","C","A","G"," ","1",".","1",".","1">>, "WCAG", "A", "critical")
HeadingsStructureIssue == RuleIssue("warning", <<"W","C","A","G"," ","1",".","3",".","1">>, "WCAG", "A", "moderate")
FormLabelsIssue == RuleIssue("error", <<"W","C","A","G"," ","1",".","3",".","1">>, "WCAG", "A", "critical")
AriaRequiredAttrIssue ==
  RuleIssue("error", <<"A","R","I","A"," ","R","e","q","u","i","r","e","d"," ","A","t","t","r","i","b","u","t","e","s">>, "ARIA", NoValue, "serious")
AriaValidValuesIssue ==
  RuleIssue("error", <<"A","R","I","A"," ","V","a","l","i","d"," ","V","a","l","u","e","s">>, "ARIA", NoValue, "serious")

\* the issue as pushed for the element at position i (standing for its
\* outerHTML and selector) with the message
Pushed(issue, i, message) ==
  [f \in DOMAIN issue \cup {"element", "message"} |->
     IF f = "element" THEN i
     ELSE IF f = "message" THEN message
     ELSE issue[f]]

\* images-alt-text rejecting the empty alt like a missing one
imagesAltText_emptyAltRejected(elements) ==
  LET rejected == select(elements, [el \in Range(elements) |->
        /\ el.tag = <<"i","m","g">>
        /\ attr(el, "alt") \in {Undefined, <<>>}
        /\ ~(attr(el, "role") # Undefined /\ Includes(attr(el, "role"), <<"p","r","e","s","e","n","t","a","t","i","o","n">>))])
  IN [k \in DOMAIN rejected |->
        Pushed(ImagesAltTextIssue, rejected[k], <<"I","m","a","g","e","s">>)]

\* images-alt-text: an img without alt whose role does not include
\* "presentation"
imagesAltText(elements) ==
  LET rejected == select(elements, [el \in Range(elements) |->
        /\ el.tag = <<"i","m","g">>
        /\ attr(el, "alt") = Undefined
        /\ ~(attr(el, "role") # Undefined /\ Includes(attr(el, "role"), <<"p","r","e","s","e","n","t","a","t","i","o","n">>))])
  IN [k \in DOMAIN rejected |->
        Pushed(ImagesAltTextIssue, rejected[k], <<"I","m","a","g","e","s"," ","m","u","s","t"," ","h","a","v","e"," ","a","l","t","e","r","n","a","t","i","v","e"," ","t","e","x","t">>)]

HeadingTags == {<<"h","1">>, <<"h","2">>, <<"h","3">>, <<"h","4">>, <<"h","5">>, <<"h","6">>}

Digits == <<"1", "2", "3", "4", "5", "6">>

\* parseInt(element.tagName.charAt(1))
headingLevel(tag) ==
  CHOOSE n \in 1..6 : Digits[n] = tag[2]

\* the each() of headings-structure over the headings still to visit
RECURSIVE headingIssues(_, _, _)
headingIssues(elements, headings, lastLevel) ==
  IF headings = <<>> THEN <<>>
  ELSE LET level == headingLevel(elements[Head(headings)].tag)
       IN (IF lastLevel # 0 /\ level > lastLevel + 1
           THEN <<Pushed(HeadingsStructureIssue, Head(headings),
                    <<"H","e","a","d","i","n","g"," ","l","e","v","e","l","s"," ","s","h","o","u","l","d"," ","n","o","t"," ","s","k","i","p"," ","(","f","o","u","n","d"," ","h">> \o <<Digits[level]>>
                    \o <<" ","a","f","t","e","r"," ","h">> \o <<Digits[lastLevel]>> \o <<")">>)>>
           ELSE <<>>)
          \o headingIssues(elements, Tail(headings), level)

\* headings-structure comparing the first heading with an h1
headingsStructure_firstAgainstH1(elements) ==
  headingIssues(elements, select(elements, [el \in Range(elements) |-> el.tag \in HeadingTags]), 1)

headingsStructure(elements) ==
  headingIssues(elements, select(elements, [el \in Range(elements) |-> el.tag \in HeadingTags]), 0)

FormControlTags == {<<"i","n","p","u","t">>, <<"s","e","l","e","c","t">>, <<"t","e","x","t","a","r","e","a">>}
SkippedTypes == {<<"s","u","b","m","i","t">>, <<"b","u","t","t","o","n">>, <<"h","i","d","d","e","n">>}

\* the each() of form-labels over the controls still to visit; building the
\* selector of the label from the id may throw
RECURSIVE formLabelIssues(_, _)
formLabelIssues(elements, controls) ==
  IF controls = <<>> THEN Returned(<<>>)
  ELSE LET el == elements[Head(controls)]
           id == attr(el, "id")
           labelSelector == IF Falsy(id) THEN Returned(id)
                            ELSE quotedAttributeSelector(id)
       IN IF attr(el, "type") \in SkippedTypes
          THEN formLabelIssues(elements, Tail(controls))
          ELSE IF labelSelector.threw THEN Threw
          ELSE LET hasLabel ==
                     /\ ~Falsy(id)
                     /\ Len(select(elements, [label \in Range(elements) |->
                              /\ label.tag = <<"l","a","b","e","l">>
                              /\ attr(label, "for") = labelSelector.value])) > 0
                   rest == formLabelIssues(elements, Tail(controls))
               IN IF rest.threw THEN Threw
                  ELSE IF /\ ~hasLabel
                          /\ Falsy(attr(el, "aria-label"))
                          /\ Falsy(attr(el, "aria-labelledby"))
                  THEN Returned(<<Pushed(FormLabelsIssue, Head(controls),
                                    <<"F","o","r","m"," ","c","o","n","t","r","o","l","s"," ","m","u","s","t"," ","h","a","v","e"," ","a","s","s","o","c","i","a","t","e","d"," ","l","a","b","e","l","s">>)>>
                                \o rest.value)
                  ELSE rest

formLabels(elements) ==
  formLabelIssues(elements, select(elements, [el \in Range(elements) |-> el.tag \in FormControlTags]))

\* the text of the attribute names the ARIA rules put into their messages
AttributeText ==
  "aria-checked" :> <<"a","r","i","a","-","c","h","e","c","k","e","d">>
  @@ "aria-disabled" :> <<"a","r","i","a","-","d","i","s","a","b","l","e","d">>
  @@ "aria-expanded" :> <<"a","r","i","a","-","e","x","p","a","n","d","e","d">>
  @@ "aria-hidden" :> <<"a","r","i","a","-","h","i","d","d","e","n">>
  @@ "aria-invalid" :> <<"a","r","i","a","-","i","n","v","a","l","i","d">>
  @@ "aria-valuenow" :> <<"a","r","i","a","-","v","a","l","u","e","n","o","w">>
  @@ "aria-valuemin" :> <<"a","r","i","a","-","v","a","l","u","e","m","i","n">>
  @@ "aria-valuemax" :> <<"a","r","i","a","-","v","a","l","u","e","m","a","x">>

requiredAttributes ==
  <<"c","h","e","c","k","b","o","x">> :> <<"aria-checked">>
  @@ <<"c","o","m","b","o","b","o","x">> :> <<"aria-expanded">>
  @@ <<"s","c","r","o","l","l","b","a","r">> :> <<"aria-valuenow", "aria-valuemin", "aria-valuemax">>
  @@ <<"s","l","i","d","e","r">> :> <<"aria-valuenow", "aria-valuemin", "aria-valuemax">>

\* the each() of aria-required-attr over the elements with a role
RECURSIVE requiredAttrIssues(_, _)
requiredAttrIssues(elements, withRole) ==
  IF withRole = <<>> THEN <<>>
  ELSE LET el == elements[Head(withRole)]
           role == attr(el, "role")
           missing == IF ~Falsy(role) /\ role \in DOMAIN requiredAttributes
                      THEN SelectSeq(requiredAttributes[role],
                             LAMBDA name : attr(el, name) = Undefined)
                      ELSE <<>>
       IN [k \in DOMAIN missing |->
             Pushed(AriaRequiredAttrIssue, Head(withRole),
               <<"E","l","e","m","e","n","t","s"," ","w","i","t","h"," ","r","o","l","e","=","\"">> \o role \o <<"\""," ","m","u","s","t"," ","h","a","v","e"," ">>
               \o AttributeText[missing[k]] \o <<" ","a","t","t","r","i","b","u","t","e">>)]
          \o requiredAttrIssues(elements, Tail(withRole))

ariaRequiredAttr(elements) ==
  requiredAttrIssues(elements, select(elements, [el \in Range(elements) |-> attr(el, "role") # Undefined]))

validValueKeys ==
  <<"aria-checked", "aria-disabled", "aria-expanded", "aria-hidden", "aria-invalid">>

validValues ==
  "aria-checked" :> <<<<"t","r","u","e">>, <<"f","a","l","s","e">>, <<"m","i","x","e","d">>>>
  @@ "aria-disabled" :> <<<<"t","r","u","e">>, <<"f","a","l","s","e">>>>
  @@ "aria-expanded" :> <<<<"t","r","u","e">>, <<"f","a","l","s","e">>>>
  @@ "aria-hidden" :> <<<<"t","r","u","e">>, <<"f","a","l","s","e">>>>
  @@ "aria-invalid" :> <<<<"t","r","u","e">>, <<"f","a","l","s","e">>, <<"g","r","a","m","m","a","r">>, <<"s","p","e","l","l","i","n","g">>>>

\* Array.prototype.join
RECURSIVE Join(_, _)
Join(strings, separator) ==
  IF strings = <<>> THEN <<>>
  ELSE IF Len(strings) = 1 THEN strings[1]
  ELSE strings[1] \o separator \o Join(Tail(strings), separator)

\* Object.keys(validValues).forEach over the attributes still to visit
RECURSIVE validValueIssues(_, _)
validValueIssues(elements, keys) ==
  IF keys = <<>> THEN <<>>
  ELSE LET name == Head(keys)
           rejected == select(elements, [el \in Range(elements) |->
             /\ attr(el, name) # Undefined
             /\ ~Falsy(attr(el, name))
             /\ attr(el, name) \notin Range(validValues[name])])
       IN [k \in DOMAIN rejected |->
             Pushed(AriaValidValuesIssue, rejected[k],
               <<"I","n","v","a","l","i","d"," ","v","a","l","u","e"," ","f","o","r"," ">> \o AttributeText[name] \o <<":"," ","\"">>
               \o attr(elements[rejected[k]], name) \o <<"\"","."," ","V","a","l","i","d"," ","v","a","l","u","e","s"," ","a","r","e",":"," ">>
               \o Join(validValues[name], <<","," ">>))]
          \o validValueIssues(elements, Tail(keys))

ariaValidValues(elements) == validValueIssues(elements, validValueKeys)

\* rule.check($) of the rule registered under ruleName
check(ruleName, elements) ==
  IF ruleName = wcagRules[1] THEN Returned(imagesAltText(elements))
  ELSE IF ruleName = wcagRules[2] THEN Returned(headingsStructure(elements))
  ELSE IF ruleName = wcagRules[3] THEN formLabels(elements)
  ELSE IF ruleName = ariaRules[1] THEN Returned(ariaRequiredAttr(elements))
  ELSE Returned(ariaValidValues(elements))

\* runRules pushing the passed marker of every rule
RECURSIVE runRules_alwaysPassed(_, _, _, _)
runRules_alwaysPassed(acc, prefix, rules, elements) ==
  IF rules = <<>> THEN Returned(acc)
  ELSE LET ruleIssues == check(Head(rules), elements)
       IN IF ruleIssues.threw THEN Threw
          ELSE runRules_alwaysPassed(
                 [acc EXCEPT !.passedChecks = Append(@, prefix \o Head(rules)),
                             !.issues = @ \o ruleIssues.value],
                 prefix, Tail(rules), elements)

\* one registry loop of evaluateHTML: a rule without issues is recorded as
\* passed under "<prefix><ruleName>", the issues of the others are appended;
\* an exception of a check leaves the loop and evaluateHTML
RECURSIVE runRules(_, _, _, _)
runRules(acc, prefix, rules, elements) ==
  IF rules = <<>> THEN Returned(acc)
  ELSE LET ruleIssues == check(Head(rules), elements)
       IN IF ruleIssues.threw THEN Threw
          ELSE runRules(
                 IF Len(ruleIssues.value) = 0
                 THEN [acc EXCEPT !.passedChecks = Append(@, prefix \o Head(rules))]
                 ELSE [acc EXCEPT !.issues = @ \o ruleIssues.value],
                 prefix, Tail(rules), elements)

\* runAxeCore: the JSDOM constructor may throw; a rejected axe.run, and a
\* violation without a first node, are caught and give no issue; otherwise
\* each violation becomes one AXE issue with the impact of its first node
runAxeCore(axe) ==
  IF axe.kind = "dom_throws" THEN Threw
  ELSE IF axe.kind = "run_rejects" THEN Returned(<<>>)
  ELSE IF \E i \in DOMAIN axe.violations : Len(axe.violations[i].nodes) = 0
  THEN Returned(<<>>)
  ELSE Returned([i \in DOMAIN axe.violations |->
         RuleIssue("error", axe.violations[i].id, "AXE", NoValue,
                   axe.violations[i].nodes[1].impact)])

\* ExplanationGenerator.enhanceIssue: the issue with the explanation fields
enhanceIssue(issue) ==
  [f \in DOMAIN issue \cup {"detailedExplanation"} |->
     IF f = "detailedExplanation" THEN "explanation" ELSE issue[f]]

countWhere(issues, field, v) ==
  Len(SelectSeq(issues, LAMBDA issue : issue[field] = v))

WCAGColon == <<"W","C","A","G",":"," ">>
ARIAColon == <<"A","R","I","A",":"," ">>

\* the summary counting a falsy impact like any other impact
summarize_everyImpact(enhancedIssues) ==
  LET standards == { enhancedIssues[i].standard : i \in DOMAIN enhancedIssues }
      impacts == { enhancedIssues[i].impact : i \in DOMAIN enhancedIssues }
  IN [totalIssues |-> Len(enhancedIssues),
      errors |-> countWhere(enhancedIssues, "type", "error"),
      warnings |-> countWhere(enhancedIssues, "type", "warning"),
      info |-> countWhere(enhancedIssues, "type", "info"),
      byStandard |-> [s \in standards |-> countWhere(enhancedIssues, "standard", s)],
      byImpact |-> [x \in impacts |-> countWhere(enhancedIssues, "impact", x)]]

\* the summary of evaluateHTML: the counts by type, standard and impact; an
\* issue with a falsy impact is counted under no impact
summarize(enhancedIssues) ==
  LET standards == { enhancedIssues[i].standard : i \in DOMAIN enhancedIssues }
      impacts == { enhancedIssues[i].impact : i \in DOMAIN enhancedIssues }
                 \ {NoValue, NullValue}
  IN [totalIssues |-> Len(enhancedIssues),
      errors |-> countWhere(enhancedIssues, "type", "error"),
      warnings |-> countWhere(enhancedIssues, "type", "warning"),
      info |-> countWhere(enhancedIssues, "type", "info"),
      byStandard |-> [s \in standards |-> countWhere(enhancedIssues, "standard", s)],
      byImpact |-> [x \in impacts |-> countWhere(enhancedIssues, "impact", x)]]

\* evaluateHTML: the two registry loops, axe-core inside a try/catch, the
\* enhancement of the issues and the summary
evaluateHTML(doc) ==
  LET wcag == runRules([issues |-> <<>>, passedChecks |-> <<>>],
                       WCAGColon, wcagRules, doc.elements)
      aria == IF wcag.threw THEN Threw
              ELSE runRules(wcag.value, ARIAColon, ariaRules, doc.elements)
  IN IF aria.threw THEN Threw
     ELSE LET axeResults == runAxeCore(doc.axe)
              issues == IF axeResults.threw THEN aria.value.issues
                        ELSE aria.value.issues \o axeResults.value
              enhancedIssues == [i \in DOMAIN issues |-> enhanceIssue(issues[i])]
          IN Returned([issues |-> enhancedIssues,
                       summary |-> summarize(enhancedIssues),
                       passedChecks |-> aria.value.passedChecks])

----------------------------------------------------------------------------
(* ARIAValidator (aria-validator.ts)                                       *)

\* the roles Map built by initializeARIASpec: for each role its required
\* properties and, where the role declares them, its required parents
ARIARoles ==
  <<"b","u","t","t","o","n">> :> [requiredProperties |-> <<>>]
  @@ <<"c","h","e","c","k","b","o","x">> :> [requiredProperties |-> <<"aria-checked">>]
  @@ <<"n","a","v","i","g","a","t","i","o","n">> :> [requiredProperties |-> <<>>]
  @@ <<"m","a","i","n">> :> [requiredProperties |-> <<>>]
  @@ <<"c","o","m","p","l","e","m","e","n","t","a","r","y">> :> [requiredProperties |-> <<>>]
  @@ <<"m","e","n","u">> :> [requiredProperties |-> <<>>]
  @@ <<"m","e","n","u","i","t","e","m">> :> [requiredProperties |-> <<>>,
                    requiredParent |-> <<<<"m","e","n","u">>, <<"m","e","n","u","b","a","r">>>>]
  @@ <<"a","l","e","r","t">> :> [requiredProperties |-> <<>>]
  @@ <<"d","i","a","l","o","g">> :> [requiredProperties |-> <<>>]
  @@ <<"t","a","b","l","i","s","t">> :> [requiredProperties |-> <<>>]
  @@ <<"t","a","b">> :> [requiredProperties |-> <<>>, requiredParent |-> <<<<"t","a","b","l","i","s","t">>>>]
  @@ <<"t","a","b","p","a","n","e","l">> :> [requiredProperties |-> <<>>]

\* the properties Set, in insertion order
ARIAProperties ==
  <<"aria-label", "aria-labelledby", "aria-describedby", "aria-controls",
    "aria-haspopup", "aria-expanded", "aria-hidden", "aria-invalid",
    "aria-required", "aria-readonly", "aria-disabled", "aria-checked",
    "aria-selected", "aria-pressed", "aria-level", "aria-valuemin",
    "aria-valuemax", "aria-valuenow", "aria-valuetext", "aria-orientation",
    "aria-live", "aria-atomic", "aria-relevant", "aria-busy", "aria-modal",
    "aria-activedescendant", "aria-owns", "aria-flowto", "aria-posinset",
    "aria-setsize", "aria-rowcount", "aria-colcount">>

\* the states Set, in insertion order
ARIAStates ==
  <<"aria-busy", "aria-checked", "aria-disabled", "aria-expanded",
    "aria-grabbed", "aria-hidden", "aria-invalid", "aria-pressed",
    "aria-selected">>

\* the fields of an ARIAValidator after its constructor
ARIAValidator ==
  [roles |-> ARIARoles, properties |-> ARIAProperties, states |-> ARIAStates]

\* an issue pushed by validate: the message is kept as its fixed part and
\* the values it interpolates (role, property, id); element is the position
\* of the element, 0 for 'Multiple elements'
ARIAIssue(type, message, element, role, property, id) ==
  [type |-> type, message |-> message, element |-> element, role |-> role,
   property |-> property, id |-> id]

\* Set.prototype.add on a Set kept in insertion order
SetAdd(set, x) == IF x \in Range(set) THEN set ELSE Append(set, x)

\* the body of the each() over $('[role]') that pushes the valid-usage note
\* for every element
validateRole_alwaysNote(self, elements, i) ==
  LET el == elements[i]
      role == attr(el, "role")
  IN IF role \notin DOMAIN self.roles
     THEN [issues |-> <<ARIAIssue("error", "Invalid ARIA role", i, role, NoValue, Undefined)>>,
           validUsages |-> <<[role |-> role, element |-> i]>>]
     ELSE LET roleSpec == self.roles[role]
              missing == SelectSeq(roleSpec.requiredProperties,
                           LAMBDA prop : attr(el, prop) = Undefined)
              hasValidParent ==
                \E k \in DOMAIN roleSpec.requiredParent :
                  closest(elements, i,
                          [e \in Range(elements) |-> attr(e, "role") = roleSpec.requiredParent[k]])
          IN [issues |->
                [k \in DOMAIN missing |->
                   ARIAIssue("error", "Missing required property", i, role,
                             missing[k], Undefined)]
                \o (IF "requiredParent" \in DOMAIN roleSpec /\ ~hasValidParent
                    THEN <<ARIAIssue("error", "must be contained within one of",
                                     i, role, NoValue, Undefined)>>
                    ELSE <<>>),
              validUsages |-> <<[role |-> role, element |-> i]>>]

\* the body of the each() over $('[role]'): an unknown role is one error; a
\* known one gets an error per missing required property, one when none of
\* its required parents is found by closest(), and a valid-usage note
validateRole(self, elements, i) ==
  LET el == elements[i]
      role == attr(el, "role")
  IN IF role \notin DOMAIN self.roles
     THEN [issues |-> <<ARIAIssue("error", "Invalid ARIA role", i, role, NoValue, Undefined)>>,
           validUsages |-> <<>>]
     ELSE LET roleSpec == self.roles[role]
              missing == SelectSeq(roleSpec.requiredProperties,
                           LAMBDA prop : attr(el, prop) = Undefined)
              hasValidParent ==
                \E k \in DOMAIN roleSpec.requiredParent :
                  closest(elements, i,
                          [e \in Range(elements) |-> attr(e, "role") = roleSpec.requiredParent[k]])
          IN [issues |->
                [k \in DOMAIN missing |->
                   ARIAIssue("error", "Missing required property", i, role,
                             missing[k], Undefined)]
                \o (IF "requiredParent" \in DOMAIN roleSpec /\ ~hasValidParent
                    THEN <<ARIAIssue("error", "must be contained within one of",
                                     i, role, NoValue, Undefined)>>
                    ELSE <<>>),
              validUsages |-> <<[role |-> role, element |-> i]>>]

\* the each() over $('[role]') for the elements still to visit
RECURSIVE validateRoles(_, _, _, _)
validateRoles(acc, self, elements, withRole) ==
  IF withRole = <<>> THEN acc
  ELSE LET i == Head(withRole)
           one == validateRole(self, elements, i)
       IN validateRoles(
            [issues |-> acc.issues \o one.issues,
             validUsages |-> acc.validUsages \o one.validUsages,
             rolesUsed |-> SetAdd(acc.rolesUsed, attr(elements[i], "role")),
             totalARIAElements |-> acc.totalARIAElements + 1],
            self, elements, Tail(withRole))

\* ids.forEach: an error for each id that $(`#${id}`) does not find; the
\* selector may throw
RECURSIVE labelledbyIssues(_, _, _)
labelledbyIssues(elements, i, ids) ==
  IF ids = <<>> THEN Returned(<<>>)
  ELSE LET parsed == idSelector(Head(ids))
       IN IF parsed.threw THEN Threw
          ELSE LET found == select(elements,
                              [e \in Range(elements) |-> matchesIdSelector(e, parsed.value)])
                   rest == labelledbyIssues(elements, i, Tail(ids))
               IN IF rest.threw THEN Threw
                  ELSE IF Len(found) = 0
                  THEN Returned(
                         <<ARIAIssue("error", "aria-labelledby references non-existent ID",
                                     i, Undefined, NoValue, Head(ids))>>
                         \o rest.value)
                  ELSE rest

\* the body of the each() over $(`[${prop}]`)
validateProperty(elements, prop, i) ==
  LET value == attr(elements[i], prop)
      empty == IF value = <<>>
               THEN <<ARIAIssue("warning", "Empty value for", i, Undefined, prop, Undefined)>>
               ELSE <<>>
      references == IF prop = "aria-labelledby" /\ ~Falsy(value)
                    THEN labelledbyIssues(elements, i, Split(value, " "))
                    ELSE Returned(<<>>)
  IN IF references.threw THEN Threw
     ELSE Returned(empty \o references.value)

\* the each() over the elements (still to visit) that carry prop
RECURSIVE validatePropertyOn(_, _, _)
validatePropertyOn(elements, prop, carriers) ==
  IF carriers = <<>> THEN Returned(<<>>)
  ELSE LET one == validateProperty(elements, prop, Head(carriers))
       IN IF one.threw THEN Threw
          ELSE LET rest == validatePropertyOn(elements, prop, Tail(carriers))
               IN IF rest.threw THEN Threw
                  ELSE Returned(one.value \o rest.value)

\* this.properties.forEach for the properties still to visit
RECURSIVE validateProperties(_, _, _)
validateProperties(acc, elements, props) ==
  IF props = <<>> THEN Returned(acc)
  ELSE LET prop == Head(props)
           carriers == select(elements, [e \in Range(elements) |-> attr(e, prop) # Undefined])
           pushed == validatePropertyOn(elements, prop, carriers)
       IN IF pushed.threw THEN Threw
          ELSE validateProperties(
                 [issues |-> acc.issues \o pushed.value,
                  propertiesUsed |-> IF carriers = <<>> THEN acc.propertiesUsed
                                     ELSE SetAdd(acc.propertiesUsed, prop)],
                 elements, Tail(props))

\* button[role="button"], nav[role="navigation"], main[role="main"],
\* aside[role="complementary"]
redundantRole(el) ==
  \/ el.tag = <<"b","u","t","t","o","n">> /\ attr(el, "role") = <<"b","u","t","t","o","n">>
  \/ el.tag = <<"n","a","v">> /\ attr(el, "role") = <<"n","a","v","i","g","a","t","i","o","n">>
  \/ el.tag = <<"m","a","i","n">> /\ attr(el, "role") = <<"m","a","i","n">>
  \/ el.tag = <<"a","s","i","d","e">> /\ attr(el, "role") = <<"c","o","m","p","l","e","m","e","n","t","a","r","y">>

redundantIssues(elements) ==
  LET redundant == select(elements, [e \in Range(elements) |-> redundantRole(e)])
  IN [k \in DOMAIN redundant |->
        ARIAIssue("warning", "Redundant ARIA role on", redundant[k],
                  attr(elements[redundant[k]], "role"), NoValue, Undefined)]

\* a[href], button, input, select, textarea, [tabindex]:not([tabindex="-1"])
focusable(el) ==
  \/ el.tag = <<"a">> /\ attr(el, "href") # Undefined
  \/ el.tag \in {<<"b","u","t","t","o","n">>, <<"i","n","p","u","t">>, <<"s","e","l","e","c","t">>, <<"t","e","x","t","a","r","e","a">>}
  \/ attr(el, "tabindex") # Undefined /\ attr(el, "tabindex") # <<"-","1">>

hiddenFocusableIssues(elements) ==
  LET hidden == select(elements, [e \in Range(elements) |-> attr(e, "aria-hidden") = <<"t","r","u","e">>])
      rejected == SelectSeq(hidden, LAMBDA i :
                    focusable(elements[i]) \/ find(elements, i, [e \in Range(elements) |-> focusable(e)]))
  IN [k \in DOMAIN rejected |->
        ARIAIssue("error", "aria-hidden=\"true\" on focusable element",
                  rejected[k], Undefined, NoValue, Undefined)]

landmarks == <<<<"m","a","i","n">>, <<"n","a","v","i","g","a","t","i","o","n">>, <<"c","o","m","p","l","e","m","e","n","t","a","r","y">>, <<"b","a","n","n","e","r">>, <<"c","o","n","t","e","n","t","i","n","f","o">>>>

\* the body of landmarks.forEach that warns whenever a landmark is repeated
landmarkIssues_anyRepeated(elements, landmark) ==
  LET carriers == select(elements, [e \in Range(elements) |-> attr(e, "role") = landmark])
  IN IF Len(carriers) > 1 /\ landmark = <<"m","a","i","n">>
     THEN <<ARIAIssue("error", "Multiple main landmarks found", 0, landmark,
                      NoValue, Undefined)>>
     ELSE IF Len(carriers) > 1
     THEN <<ARIAIssue("warning", "Multiple landmarks without unique labels",
                      0, landmark, NoValue, Undefined)>>
     ELSE <<>>

\* the body of landmarks.forEach
landmarkIssues(elements, landmark) ==
  LET carriers == select(elements, [e \in Range(elements) |-> attr(e, "role") = landmark])
      unlabeled == SelectSeq(carriers, LAMBDA i :
                     /\ Falsy(attr(elements[i], "aria-label"))
                     /\ Falsy(attr(elements[i], "aria-labelledby")))
  IN IF Len(carriers) > 1 /\ landmark = <<"m","a","i","n">>
     THEN <<ARIAIssue("error", "Multiple main landmarks found", 0, landmark,
                      NoValue, Undefined)>>
     ELSE IF Len(carriers) > 1 /\ Len(unlabeled) > 0
     THEN <<ARIAIssue("warning", "Multiple landmarks without unique labels",
                      0, landmark, NoValue, Undefined)>>
     ELSE <<>>

RECURSIVE allLandmarkIssues(_, _)
allLandmarkIssues(elements, remaining) ==
  IF remaining = <<>> THEN <<>>
  ELSE landmarkIssues(elements, Head(remaining))
       \o allLandmarkIssues(elements, Tail(remaining))

\* ARIAExplanationGenerator.enhanceIssue: the issue with the explanation
\* fields
ariaEnhanceIssue(issue) ==
  [f \in DOMAIN issue \cup {"relatedGuidelines"} |->
     IF f = "relatedGuidelines" THEN "WAI-ARIA 1.2 Specification" ELSE issue[f]]

\* validate that enters every role it meets into the roles Map
validate_learnsRoles(self, elements) ==
  LET withRole == select(elements, [e \in Range(elements) |-> attr(e, "role") # Undefined])
      rolePhase == validateRoles(
        [issues |-> <<>>, validUsages |-> <<>>, rolesUsed |-> <<>>,
         totalARIAElements |-> 0], self, elements, withRole)
      propertyPhase == validateProperties(
        [issues |-> rolePhase.issues, propertiesUsed |-> <<>>],
        elements, self.properties)
      learned == [role \in DOMAIN self.roles \cup Range(rolePhase.rolesUsed) |->
                    IF role \in DOMAIN self.roles THEN self.roles[role]
                    ELSE [requiredProperties |-> <<>>]]
  IN IF propertyPhase.threw
     THEN [outcome |-> Threw, self |-> [self EXCEPT !.roles = learned]]
     ELSE LET issues == propertyPhase.value.issues
                        \o redundantIssues(elements)
                        \o hiddenFocusableIssues(elements)
                        \o allLandmarkIssues(elements, landmarks)
          IN [outcome |-> Returned(
                [issues |-> [k \in DOMAIN issues |-> ariaEnhanceIssue(issues[k])],
                 validUsages |-> rolePhase.validUsages,
                 statistics |->
                   [totalARIAElements |-> rolePhase.totalARIAElements,
                    rolesUsed |-> rolePhase.rolesUsed,
                    propertiesUsed |-> propertyPhase.value.propertiesUsed,
                    statesUsed |-> <<>>]]),
              self |-> [self EXCEPT !.roles = learned]]

\* validate(html): what the call does (it returns the result or throws)
\* and the fields of the validator after it
validate(self, elements) ==
  LET withRole == select(elements, [e \in Range(elements) |-> attr(e, "role") # Undefined])
      rolePhase == validateRoles(
        [issues |-> <<>>, validUsages |-> <<>>, rolesUsed |-> <<>>,
         totalARIAElements |-> 0], self, elements, withRole)
      propertyPhase == validateProperties(
        [issues |-> rolePhase.issues, propertiesUsed |-> <<>>],
        elements, self.properties)
  IN IF propertyPhase.threw
     THEN [outcome |-> Threw, self |-> self]
     ELSE LET issues == propertyPhase.value.issues
                        \o redundantIssues(elements)
                        \o hiddenFocusableIssues(elements)
                        \o allLandmarkIssues(elements, landmarks)
          IN [outcome |-> Returned(
                [issues |-> [k \in DOMAIN issues |-> ariaEnhanceIssue(issues[k])],
                 validUsages |-> rolePhase.validUsages,
                 statistics |->
                   [totalARIAElements |-> rolePhase.totalARIAElements,
                    rolesUsed |-> rolePhase.rolesUsed,
                    propertiesUsed |-> propertyPhase.value.propertiesUsed,
                    statesUsed |-> <<>>]]),
              self |-> self]

----------------------------------------------------------------------------
(* ConfigLoader, as far as the tool handler uses it.                       *)

WCAG_LEVELS == <<LevelA, LevelAA, LevelAAA>>

\* loadConfig when nothing is cached: the defaults, overridden by the level
\* and the criteria lists of the first config file found, the level
\* overridden by ACCESSIBILITY_WCAG_LEVEL; validateConfig throws for a level
\* outside WCAG_LEVELS
loadConfig(sources) ==
  LET fromFile == IF sources.file = Undefined THEN LevelAA ELSE sources.file
      merged == IF sources.env = Undefined THEN fromFile ELSE sources.env
  IN IF ArrayIndexOf(WCAG_LEVELS, merged) = -1 THEN Threw
     ELSE Returned([wcag |-> [defaultLevel |-> merged,
                              enabledCriteria |-> sources.enabledCriteria,
                              disabledCriteria |-> sources.disabledCriteria]])

\* getConfig: this.config ?? await this.loadConfig()
getConfig(cached, sources) ==
  IF cached # NullObject THEN Returned(cached) ELSE loadConfig(sources)

\* getWCAGLevel: override || this.config?.wcag.defaultLevel || 'AA'
getWCAGLevel(cached, override) ==
  Or(override, Or(IF cached = NullObject THEN Undefined ELSE cached.wcag.defaultLevel,
                  LevelAA))

\* isWCAGCriterionEnabled: the disabled list first, then a non-empty enabled
\* list; no caller in the server
isWCAGCriterionEnabled(cached, criterionId) ==
  IF cached = NullObject THEN TRUE
  ELSE IF ArrayIndexOf(cached.wcag.disabledCriteria, criterionId) # -1 THEN FALSE
  ELSE IF Len(cached.wcag.enabledCriteria) # 0
  THEN ArrayIndexOf(cached.wcag.enabledCriteria, criterionId) # -1
  ELSE TRUE

\* the ConfigLoader singleton: config, configPaths (a Set, in insertion
\* order) and cachedSearchPaths; the working directory does not change
ConfigLoaderOf(cached, paths, searchPaths) ==
  [config |-> cached, configPaths |-> paths, cachedSearchPaths |-> searchPaths]

\* addConfigPath resetting the cached configuration as well
addConfigPath_clearsConfig(self, path) ==
  [self EXCEPT !.config = NullObject,
               !.configPaths = SetAdd(@, path),
               !.cachedSearchPaths = Null]

\* addConfigPath: the path joins the set, the cached search paths go
addConfigPath(self, path) ==
  [self EXCEPT !.configPaths = SetAdd(@, path),
               !.cachedSearchPaths = Null]

RECURSIVE Deduplicated(_)
Deduplicated(paths) ==
  IF paths = <<>> THEN <<>>
  ELSE SetAdd(Deduplicated(SubSeq(paths, 1, Len(paths) - 1)), paths[Len(paths)])

\* setConfigPaths: new Set(paths)
setConfigPaths(self, paths) ==
  [self EXCEPT !.configPaths = Deduplicated(paths),
               !.cachedSearchPaths = Null]

\* the project-level path of getConfigSearchPaths that the model keeps
ProjectPath == "/cwd/accessibility.config.json"

\* getConfigSearchPaths: the cached list, or the user-specified paths
\* followed by the built-in ones
getConfigSearchPaths(self) ==
  IF self.cachedSearchPaths # Null
  THEN [paths |-> self.cachedSearchPaths, self |-> self]
  ELSE LET paths == self.configPaths \o <<ProjectPath>>
       IN [paths |-> paths, self |-> [self EXCEPT !.cachedSearchPaths = paths]]

\* loadConfigFile: throws for a file that does not exist
loadConfigFile(files, path) ==
  IF path \notin DOMAIN files \/ files[path] = Null THEN Threw
  ELSE Returned(files[path])

\* the for loop of loadConfig over the search paths: the first file that
\* loads is used; reads counts the files tried
RECURSIVE firstConfigFile(_, _, _)
firstConfigFile(files, paths, reads) ==
  IF paths = <<>> THEN [file |-> Undefined, reads |-> reads]
  ELSE LET fileConfig == loadConfigFile(files, Head(paths))
       IN IF fileConfig.threw
          THEN firstConfigFile(files, Tail(paths), reads + 1)
          ELSE [file |-> fileConfig.value, reads |-> reads + 1]

\* ConfigLoader.loadConfig over the file system and the environment: the
\* cached configuration if there is one, else the merged and validated
\* sources, which are cached
loadConfigFrom(self, sources) ==
  IF self.config # NullObject
  THEN [outcome |-> Returned(self.config), self |-> self, reads |-> 0]
  ELSE LET search == getConfigSearchPaths(self)
           found == firstConfigFile(sources.files, search.paths, 0)
           loaded == loadConfig([file |-> found.file, env |-> sources.env,
                                 enabledCriteria |-> <<>>,
                                 disabledCriteria |-> <<>>])
       IN [outcome |-> loaded,
           self |-> IF loaded.threw THEN search.self
                    ELSE [search.self EXCEPT !.config = loaded.value],
           reads |-> found.reads + 1]

\* ConfigLoader.getConfig
getConfigFrom(self, sources) ==
  IF self.config # NullObject
  THEN [outcome |-> Returned(self.config), self |-> self, reads |-> 0]
  ELSE loadConfigFrom(self, sources)

\* ConfigLoader.reloadConfig
reloadConfig(self, sources) ==
  loadConfigFrom([self EXCEPT !.config = NullObject, !.cachedSearchPaths = Null],
                 sources)

----------------------------------------------------------------------------
(* DocumentationFetcher: fetchDocument and fetchWCAGGuidelines.            *)

\* String.prototype.trim
RECURSIVE Trim(_)
Trim(s) ==
  IF s = <<>> THEN <<>>
  ELSE IF Head(s) \in Whitespace THEN Trim(Tail(s))
  ELSE IF s[Len(s)] \in Whitespace THEN Trim(SubSeq(s, 1, Len(s) - 1))
  ELSE s

\* getCachedDocument(url): the cached document when its file can be read and
\* is younger than cacheTTL, else null
getCachedDocument(site) ==
  IF site.cache.readable /\ site.cache.fresh
  THEN [found |-> TRUE, content |-> site.cache.content]
  ELSE [found |-> FALSE, content |-> <<>>]

\* the text of the first element a content selector matches, the text of
\* body when there is none or when its text is empty
extractContent(html) ==
  LET content == IF html.matched THEN html.text ELSE <<>>
  IN IF content = <<>> THEN html.body ELSE content

\* fetchDocument(url, type) on a site: the cached content, else the cleaned
\* content of the fetched page once it is written to the cache; a fetch that
\* rejects, a response that is not ok and a failed cache write all throw
fetchDocument(site) ==
  LET cached == getCachedDocument(site)
      content == Trim(ReplaceWhitespaceRuns(extractContent(site.response.html), <<" ">>))
  IN IF cached.found THEN [outcome |-> Returned(cached.content), fetches |-> 0]
     ELSE IF site.response.rejects THEN [outcome |-> Threw, fetches |-> 1]
     ELSE IF ~site.response.ok THEN [outcome |-> Threw, fetches |-> 1]
     ELSE IF site.writeFails THEN [outcome |-> Threw, fetches |-> 1]
     ELSE [outcome |-> Returned(content), fetches |-> 1]

wcagUrls ==
  << <<"h","t","t","p","s",":","/","/","w","w","w",".","w","3",".","o","r","g","/","W","A","I","/","W","C","A","G","2","1","/","q","u","i","c","k","r","e","f","/">>,
     <<"h","t","t","p","s",":","/","/","w","w","w",".","w","3",".","o","r","g","/","W","A","I","/","W","C","A","G","2","1","/","U","n","d","e","r","s","t","a","n","d","i","n","g","/">>,
     <<"h","t","t","p","s",":","/","/","w","w","w",".","w","3",".","o","r","g","/","W","A","I","/","W","C","A","G","2","1","/","T","e","c","h","n","i","q","u","e","s","/">> >>

\* url.split('/').pop() || 'wcag'
guidelineKey(url) ==
  LET pieces == Split(url, "/")
  IN Or(pieces[Len(pieces)], <<"w","c","a","g">>)

\* Map.prototype.set: the value of an existing key is replaced in place, a
\* new key is appended
MapSet(map, key, value) ==
  IF \E i \in DOMAIN map : map[i].key = key
  THEN [i \in DOMAIN map |->
          IF map[i].key = key THEN [key |-> key, value |-> value] ELSE map[i]]
  ELSE Append(map, [key |-> key, value |-> value])

\* the loop of fetchWCAGGuidelines from the k-th URL on
RECURSIVE fetchGuidelinesFrom(_, _, _)
fetchGuidelinesFrom(sites, k, guidelines) ==
  IF k > Len(wcagUrls) THEN guidelines
  ELSE LET fetched == fetchDocument(sites[k])
       IN IF fetched.outcome.threw
          THEN fetchGuidelinesFrom(sites, k + 1, guidelines)
          ELSE fetchGuidelinesFrom(sites, k + 1,
                 MapSet(guidelines, guidelineKey(wcagUrls[k]), fetched.outcome.value))

fetchWCAGGuidelines(sites) == Returned(fetchGuidelinesFrom(sites, 1, <<>>))

----------------------------------------------------------------------------
(* The inputs of the model.                                                *)

\* the issues a caller of evaluateCompliance puts into an EvaluationResult:
\* one per level, and two whose rule carries an id without the "WCAG " prefix
IssuePool ==
  { RuleIssue("error", <<"W","C","A","G"," ","1",".","1",".","1">>, "WCAG", "A", "critical"),
    RuleIssue("error", <<"W","C","A","G"," ","1",".","4",".","3">>, "WCAG", "AA", "serious"),
    RuleIssue("error", <<"W","C","A","G"," ","1",".","4",".","6">>, "WCAG", "AAA", "serious"),
    RuleIssue("error", <<"W","C","A","G","1",".","1",".","1">>, "WCAG", "A", "serious"),
    RuleIssue("error", <<"1",".","1",".","1">>, "AXE", NoValue, "serious") }

\* the passed checks a caller puts into an EvaluationResult: the names the
\* evaluator records for its WCAG rules, a name that carries a criterion id
\* and two that carry a criterion name
CheckPool ==
  { <<"W","C","A","G",":"," ","i","m","a","g","e","s","-","a","l","t","-","t","e","x","t">>,
    <<"W","C","A","G",":"," ","f","o","r","m","-","l","a","b","e","l","s">>,
    <<"W","C","A","G",":"," ","h","e","a","d","i","n","g","s","-","s","t","r","u","c","t","u","r","e">>,
    <<"c","h","e","c","k"," ","1",".","1",".","1">>,
    <<"C","o","n","t","r","a","s","t","-","(","M","i","n","i","m","u","m",")">>,
    <<"l","i","n","k","-","p","u","r","p","o","s","e","-","(","l","i","n","k","-","o","n","l","y",")">> }

SeqsUpTo(S, n) == UNION { [1..k -> S] : k \in 0..n }

\* the target levels a caller passes: omitted, the three levels, and a
\* string that is no level; a tool request may also carry the empty string
TargetPool == {Undefined, LevelA, LevelAA, LevelAAA, <<"a", "a">>}

ToolTargetPool == TargetPool \cup {<<>>}

\* the violations axe-core reports: with two nodes, with one, with a node
\* whose impact is null, and one without nodes
ViolationPool ==
  { [id |-> <<"c","o","l","o","r","-","c","o","n","t","r","a","s","t">>,
     nodes |-> <<[impact |-> "serious"], [impact |-> "minor"]>>],
    [id |-> <<"h","t","m","l","-","h","a","s","-","l","a","n","g">>, nodes |-> <<[impact |-> "moderate"]>>],
    [id |-> <<"d","o","c","u","m","e","n","t","-","t","i","t","l","e">>, nodes |-> <<[impact |-> NullValue]>>],
    [id |-> <<"p","a","g","e","-","h","a","s","-","h","e","a","d","i","n","g","-","o","n","e">>, nodes |-> <<>>] }

AxeOutcomes ==
  { [kind |-> "dom_throws", violations |-> <<>>],
    [kind |-> "run_rejects", violations |-> <<>>] }
  \cup { [kind |-> "ok", violations |-> v] : v \in SeqsUpTo(ViolationPool, MaxViolations) }

\* the elements of the documents given to the evaluator: images with and
\* without alt, headings, form controls without a label, with an aria-label
\* and with an id that holds a quotation mark, and checkboxes without
\* aria-checked and with a value it does not allow
EvaluatorElements ==
  { Element(<<"i","m","g">>, 0, NoAttrs),
    Element(<<"i","m","g">>, 0, "alt" :> <<"x">>),
    Element(<<"h","1">>, 0, NoAttrs),
    Element(<<"h","3">>, 0, NoAttrs),
    Element(<<"i","n","p","u","t">>, 0, NoAttrs),
    Element(<<"i","n","p","u","t">>, 0, "aria-label" :> <<"x">>),
    Element(<<"i","n","p","u","t">>, 0, "id" :> <<"a","\"","b">>),
    Element(<<"d","i","v">>, 0, "role" :> <<"c","h","e","c","k","b","o","x">>),
    Element(<<"d","i","v">>, 0, "role" :> <<"c","h","e","c","k","b","o","x">> @@ "aria-checked" :> <<"m","a","y","b","e">>) }

Document(elements, axe) == [elements |-> elements, axe |-> axe]

Documents ==
  { Document(elements, axe) :
      elements \in SeqsUpTo(EvaluatorElements, MaxElements), axe \in AxeOutcomes }

\* the documents of the tool requests
ToolDocuments ==
  { Document(elements, axe) :
      elements \in SeqsUpTo(EvaluatorElements, MaxToolElements), axe \in AxeOutcomes }

\* the WCAG level a config file or the environment sets, if any
ConfigLevels == {Undefined, LevelA, LevelAAA, <<"a", "a">>}

\* the criteria lists of the configuration: the defaults, a disabled
\* criterion, an enabled criterion, and a criterion in both lists
ConfigCriteria ==
  { [enabledCriteria |-> <<>>, disabledCriteria |-> <<>>],
    [enabledCriteria |-> <<>>, disabledCriteria |-> <<<<"1",".","1",".","1">>>>],
    [enabledCriteria |-> <<<<"1",".","3",".","1">>>>, disabledCriteria |-> <<>>],
    [enabledCriteria |-> <<<<"1",".","1",".","1">>>>,
     disabledCriteria |-> <<<<"1",".","1",".","1">>>>] }

NoDocument == [elements |-> <<>>, axe |-> [kind |-> "none"]]
NoResult == [issues |-> <<>>, passedChecks |-> <<>>]
NoArgs == [targetLevel |-> Undefined]
NotCalled == [threw |-> FALSE, value |-> NullObject]

\* the elements of the documents given to the validator. Roles: a tab, a
\* tablist, an element without role, a checkbox without and with
\* aria-checked, a menuitem and a menubar (a role outside the catalog)
RoleElements ==
  { Element(<<"d","i","v">>, 0, "role" :> <<"t","a","b">>),
    Element(<<"d","i","v">>, 0, "role" :> <<"t","a","b","l","i","s","t">>),
    Element(<<"d","i","v">>, 0, NoAttrs),
    Element(<<"d","i","v">>, 0, "role" :> <<"c","h","e","c","k","b","o","x">>),
    Element(<<"d","i","v">>, 0, "role" :> <<"c","h","e","c","k","b","o","x">> @@ "aria-checked" :> <<"t","r","u","e">>),
    Element(<<"d","i","v">>, 0, "role" :> <<"m","e","n","u","i","t","e","m">>),
    Element(<<"d","i","v">>, 0, "role" :> <<"m","e","n","u","b","a","r">>) }

\* references: to t and m, to t and m with two spaces between them, to the
\* id a.b, an empty one, and the elements with the ids t and a.b
LabelElements ==
  { Element(<<"d","i","v">>, 0, "aria-labelledby" :> <<"t"," ","m">>),
    Element(<<"d","i","v">>, 0, "aria-labelledby" :> <<"t"," "," ","m">>),
    Element(<<"d","i","v">>, 0, "aria-labelledby" :> <<"a",".","b">>),
    Element(<<"d","i","v">>, 0, "aria-labelledby" :> <<>>),
    Element(<<"h","2">>, 0, "id" :> <<"t">>),
    Element(<<"h","2">>, 0, "id" :> <<"a",".","b">>) }

\* landmarks: main, navigation without a label, with a label, with an empty
\* label, and banner
LandmarkElements ==
  { Element(<<"d","i","v">>, 0, "role" :> <<"m","a","i","n">>),
    Element(<<"n","a","v">>, 0, "role" :> <<"n","a","v","i","g","a","t","i","o","n">>),
    Element(<<"d","i","v">>, 0, "role" :> <<"n","a","v","i","g","a","t","i","o","n">> @@ "aria-label" :> <<"x">>),
    Element(<<"d","i","v">>, 0, "role" :> <<"n","a","v","i","g","a","t","i","o","n">> @@ "aria-label" :> <<>>),
    Element(<<"d","i","v">>, 0, "role" :> <<"b","a","n","n","e","r">>) }

\* the families of documents given to validate: elements with roles, which
\* are nested, and flat lists of elements with references and of landmarks
Families == {RoleElements, LabelElements, LandmarkElements}

\* the nestings of n elements: the first element is at the top, every other
\* at most one level below the element before it; only the elements with
\* roles are nested
Nestings(family, n) ==
  IF family = RoleElements
  THEN { depths \in [1..n -> 0..(n - 1)] :
           \A k \in 1..n :
             depths[k] <= (IF k = 1 THEN 0 ELSE depths[k - 1] + 1) }
  ELSE { [k \in 1..n |-> 0] }

\* the document of these elements in this nesting
Tree(shapes, depths) ==
  [k \in DOMAIN shapes |-> [shapes[k] EXCEPT !.depth = depths[k]]]

\* the documents of the requests that follow a first one
ReuseDocuments ==
  {<<>>} \cup { <<e>> : e \in RoleElements \cup LabelElements \cup LandmarkElements }

\* the user-specified configuration path, and the files and the environment
\* the loader reads: each file is absent, sets level A, or sets a level
\* that is none; ACCESSIBILITY_WCAG_LEVEL is unset or AAA
UserPath == "/u.json"

FileContents == {Null, LevelA, <<"a", "a">>}

ConfigSources ==
  { [files |-> (UserPath :> user @@ ProjectPath :> project), env |-> env] :
      user \in FileContents, project \in FileContents, env \in {Undefined, LevelAAA} }

NoSources == [files |-> (UserPath :> Null @@ ProjectPath :> Null), env |-> Undefined]

NoLoaderCall == [op |-> "none", before |-> NullObject, outcome |-> NotCalled, reads |-> 0]

\* what one URL answers during a call: the cache file of the URL, the
\* response of fetch, and whether the cache file can be written
NoCache == [readable |-> FALSE, fresh |-> FALSE, content |-> <<>>]
NoPage == [matched |-> FALSE, text |-> <<>>, body |-> <<>>]
Page(matched, text, body) == [matched |-> matched, text |-> text, body |-> body]
Response(rejects, ok, html) == [rejects |-> rejects, ok |-> ok, html |-> html]
Site(cache, response, writeFails) ==
  [cache |-> cache, response |-> response, writeFails |-> writeFails]

Sites ==
  { Site([readable |-> TRUE, fresh |-> TRUE, content |-> <<"x">>], Response(TRUE, FALSE, NoPage), FALSE),
    Site([readable |-> TRUE, fresh |-> FALSE, content |-> <<"x">>],
         Response(FALSE, TRUE, Page(FALSE, <<>>, <<" ","a"," "," ","b"," ">>)), FALSE),
    Site(NoCache, Response(TRUE, FALSE, NoPage), FALSE),
    Site(NoCache, Response(FALSE, FALSE, NoPage), FALSE),
    Site(NoCache, Response(FALSE, TRUE, Page(TRUE, <<"m">>, <<"m"," ","b">>)), FALSE),
    Site(NoCache, Response(FALSE, TRUE, Page(TRUE, <<>>, <<"b">>)), FALSE),
    Site(NoCache, Response(FALSE, TRUE, Page(TRUE, <<"m">>, <<"m"," ","b">>)), TRUE) }

NoFetchCall == [sites |-> <<>>, outcome |-> NotCalled]

NoValidation == [html |-> <<>>, outcome |-> NotCalled]

\* the documents given to the check of one rule: images with and without
\* alt and role, headings of every level around a paragraph, and form
\* controls with their ways of being labelled
ImageElements ==
  { Element(<<"i","m","g">>, 0, "src" :> <<"x",".","j","p","g">>),
    Element(<<"i","m","g">>, 0, "alt" :> <<>>),
    Element(<<"i","m","g">>, 0, "alt" :> <<"x">>),
    Element(<<"i","m","g">>, 0, "role" :> <<"p","r","e","s","e","n","t","a","t","i","o","n">>),
    Element(<<"i","m","g">>, 0, "role" :> <<"b","u","t","t","o","n">>),
    Element(<<"i","m","g">>, 0, "role" :> <<"n","o","n","e"," ","p","r","e","s","e","n","t","a","t","i","o","n">>),
    Element(<<"d","i","v">>, 0, NoAttrs) }

HeadingElements ==
  { Element(<<"h","1">>, 0, NoAttrs), Element(<<"h","2">>, 0, NoAttrs),
    Element(<<"h","3">>, 0, NoAttrs), Element(<<"h","4">>, 0, NoAttrs),
    Element(<<"h","5">>, 0, NoAttrs), Element(<<"h","6">>, 0, NoAttrs),
    Element(<<"p">>, 0, NoAttrs) }

ControlElements ==
  { Element(<<"i","n","p","u","t">>, 0, NoAttrs),
    Element(<<"i","n","p","u","t">>, 0, "type" :> <<"s","u","b","m","i","t">>),
    Element(<<"i","n","p","u","t">>, 0, "type" :> <<"h","i","d","d","e","n">>),
    Element(<<"i","n","p","u","t">>, 0, "type" :> <<"t","e","x","t">> @@ "id" :> <<"f">>),
    Element(<<"l","a","b","e","l">>, 0, "for" :> <<"f">>),
    Element(<<"l","a","b","e","l">>, 0, "for" :> <<"g">>),
    Element(<<"s","e","l","e","c","t">>, 0, "aria-label" :> <<"x">>),
    Element(<<"t","e","x","t","a","r","e","a">>, 0, "aria-labelledby" :> <<"t">>),
    Element(<<"i","n","p","u","t">>, 0, "id" :> <<"a","\"","b">>) }

\* the family of documents each rule of wcagRules is checked on
RuleFamilies == <<ImageElements, HeadingElements, ControlElements>>

NoRuleCheck == [ruleName |-> <<>>, elements |-> <<>>, outcome |-> NotCalled]

----------------------------------------------------------------------------
(* WCAGComplianceChecker                                                   *)

\* the strings of the model that occur as the rule of an issue and as a
\* passed check
Rules ==
  { issue.rule : issue \in IssuePool }
  \cup { issue.rule : issue \in {ImagesAltTextIssue, HeadingsStructureIssue,
                                  FormLabelsIssue, AriaRequiredAttrIssue,
                                  AriaValidValuesIssue} }
  \cup { violation.id : violation \in ViolationPool }

CheckNames ==
  CheckPool
  \cup { WCAGColon \o wcagRules[i] : i \in DOMAIN wcagRules }
  \cup { ARIAColon \o ariaRules[i] : i \in DOMAIN ariaRules }

\* the levelOrder array of getApplicableCriteria
levelOrder == <<LevelA, LevelAA, LevelAAA>>

\* getApplicableCriteria without the check of targetIndex
getApplicableCriteria_noThrow(target) ==
  LET targetIndex == ArrayIndexOf(levelOrder, target)
  IN Returned(SelectSeq(criteria,
       LAMBDA criterion : ArrayIndexOf(levelOrder, criterion.level) <= targetIndex))

\* getApplicableCriteria comparing the level indices with <
getApplicableCriteria_strict(target) ==
  LET targetIndex == ArrayIndexOf(levelOrder, target)
  IN IF targetIndex = -1 THEN Threw
     ELSE Returned(SelectSeq(criteria,
            LAMBDA criterion : ArrayIndexOf(levelOrder, criterion.level) < targetIndex))

\* getApplicableCriteria returning the whole catalog for every valid target
getApplicableCriteria_allLevels(target) ==
  LET targetIndex == ArrayIndexOf(levelOrder, target)
  IN IF targetIndex = -1 THEN Threw
     ELSE Returned(criteria)

\* the criteria whose level index is at most the target's, in catalog
\* order; throws for a target that is not in levelOrder
getApplicableCriteria(target) ==
  LET targetIndex == ArrayIndexOf(levelOrder, target)
  IN IF targetIndex = -1 THEN Threw
     ELSE Returned(SelectSeq(criteria,
            LAMBDA criterion : ArrayIndexOf(levelOrder, criterion.level) <= targetIndex))

WCAGPrefix == <<"W", "C", "A", "G">>
WCAGSpace == <<"W", "C", "A", "G", " ">>

\* criterionIdOf without the startsWith guard
criterionIdOf_anyRule(rule) == ReplaceFirst(rule, WCAGSpace, <<>>)

\* the key under which the forEach over the issues files an issue of this
\* rule, Undefined for a rule it skips
criterionIdOf(rule) ==
  IF StartsWith(rule, WCAGPrefix) THEN ReplaceFirst(rule, WCAGSpace, <<>>)
  ELSE Undefined

\* criterionIdOf for every rule of the model, computed once
criterionIdOfRule == [rule \in Rules |-> criterionIdOf(rule)]

\* criteriaIssues.get(id) || [] after the forEach over evaluationResult.issues
criteriaIssuesGet(issues, id) ==
  SelectSeq(issues, LAMBDA issue : criterionIdOfRule[issue.rule] = id)

\* isRelatedCheck relating every passed WCAG check to every criterion
isRelatedCheck_anyWCAGCheck(checkName, criterion) ==
  StartsWith(checkName, WCAGColon)

\* the predicate of the filter in isCriterionApplicable
isRelatedCheck(checkName, criterion) ==
  \/ Includes(checkName, criterion.id)
  \/ Includes(ToLowerCase(checkName),
       ReplaceWhitespaceRuns(ToLowerCase(criterion.name), <<"-">>))

\* for every check name of the model, the ids of the criteria it is related
\* to, computed once
relatedCriteria ==
  [checkName \in CheckNames |->
     { criteria[i].id : i \in { j \in DOMAIN criteria : isRelatedCheck(checkName, criteria[j]) } }]

\* relatedChecks.length > 0
isCriterionApplicable(criterion, result) ==
  LET relatedChecks == SelectSeq(result.passedChecks, LAMBDA checkName :
        criterion.id \in relatedCriteria[checkName])
  IN Len(relatedChecks) > 0

\* classifyCriterion with the issue test and the passed-check test as two
\* independent ifs
classifyCriterion_noElse(lists, criterion, result) ==
  LET issues == criteriaIssuesGet(result.issues, criterion.id)
      afterFailed == IF Len(issues) > 0
                     THEN [lists EXCEPT !.failedCriteria = Append(@, criterion)]
                     ELSE lists
  IN IF isCriterionApplicable(criterion, result)
     THEN [afterFailed EXCEPT !.passedCriteria = Append(@, criterion)]
     ELSE IF Len(issues) > 0 THEN afterFailed
     ELSE [afterFailed EXCEPT !.notApplicableCriteria = Append(@, criterion)]

\* one iteration of applicableCriteria.forEach: the criterion is pushed to
\* one of the three lists
classifyCriterion(lists, criterion, result) ==
  LET issues == criteriaIssuesGet(result.issues, criterion.id)
  IN IF Len(issues) > 0
     THEN [lists EXCEPT !.failedCriteria = Append(@, criterion)]
     ELSE IF isCriterionApplicable(criterion, result)
     THEN [lists EXCEPT !.passedCriteria = Append(@, criterion)]
     ELSE [lists EXCEPT !.notApplicableCriteria = Append(@, criterion)]

\* applicableCriteria.forEach over the criteria still to visit
RECURSIVE classifyAll(_, _, _)
classifyAll(lists, applicable, result) ==
  IF applicable = <<>> THEN lists
  ELSE classifyAll(classifyCriterion(lists, Head(applicable), result),
                   Tail(applicable), result)

\* passed.filter(c => c.level === level).length, also used on failed
countAtLevel(list, level) ==
  Len(SelectSeq(list, LAMBDA criterion : criterion.level = level))

\* the loop over the levels up to the target: the level granted by the
\* first level that has a failure, Undefined when the loop ends without one
RECURSIVE failureLevelFrom(_, _, _)
failureLevelFrom(i, targetIndex, failed) ==
  IF i > targetIndex THEN Undefined
  ELSE LET currentLevel == levelOrder[i + 1]
       IN IF countAtLevel(failed, currentLevel) > 0
          THEN IF currentLevel = LevelA THEN LevelNone
               ELSE IF currentLevel = LevelAA THEN LevelA
               ELSE IF currentLevel = LevelAAA THEN LevelAA
               ELSE failureLevelFrom(i + 1, targetIndex, failed)
          ELSE failureLevelFrom(i + 1, targetIndex, failed)

\* the same loop run from the target level downwards
RECURSIVE failureLevelDown(_, _)
failureLevelDown(i, failed) ==
  IF i < 0 THEN Undefined
  ELSE LET currentLevel == levelOrder[i + 1]
       IN IF countAtLevel(failed, currentLevel) > 0
          THEN IF currentLevel = LevelA THEN LevelNone
               ELSE IF currentLevel = LevelAA THEN LevelA
               ELSE LevelAA
          ELSE failureLevelDown(i - 1, failed)

\* failureLevel deciding by the highest level that has a failure
failureLevel_highestFirst(failed, target) ==
  failureLevelDown(ArrayIndexOf(levelOrder, target), failed)

\* the level the failures leave, Undefined without a failure up to the target
failureLevel(failed, target) ==
  failureLevelFrom(0, ArrayIndexOf(levelOrder, target), failed)

\* claimLevel granting AAA without a passed AA criterion
claimLevel_noAACheck(passed, target) ==
  LET passedA == countAtLevel(passed, LevelA)
      passedAA == countAtLevel(passed, LevelAA)
      passedAAA == countAtLevel(passed, LevelAAA)
  IN IF target = LevelAAA /\ passedAAA > 0 /\ passedA > 0 THEN LevelAAA
     ELSE IF StringGE(target, LevelAA) /\ passedAA > 0 /\ passedA > 0 THEN LevelAA
     ELSE IF passedA > 0 THEN LevelA
     ELSE LevelNone

\* what can be claimed when no failure was found
claimLevel(passed, target) ==
  LET passedA == countAtLevel(passed, LevelA)
      passedAA == countAtLevel(passed, LevelAA)
      passedAAA == countAtLevel(passed, LevelAAA)
  IN IF target = LevelAAA /\ passedAAA > 0 /\ passedAA > 0 /\ passedA > 0 THEN LevelAAA
     ELSE IF StringGE(target, LevelAA) /\ passedAA > 0 /\ passedA > 0 THEN LevelAA
     ELSE IF passedA > 0 THEN LevelA
     ELSE LevelNone

calculateComplianceLevel(passed, failed, target) ==
  LET fromFailures == failureLevel(failed, target)
  IN IF fromFailures # Undefined THEN fromFailures
     ELSE claimLevel(passed, target)

\* calculateOverallScore truncating instead of rounding
calculateOverallScore_floor(passed, failed) ==
  LET total == Len(passed) + Len(failed)
  IN IF total = 0 THEN 0
     ELSE (Len(passed) * 100) \div total

calculateOverallScore(passed, failed) ==
  LET total == Len(passed) + Len(failed)
  IN IF total = 0 THEN 0
     ELSE MathRound(Len(passed) * 100, total)

principles == <<"Perceivable", "Operable", "Understandable", "Robust">>

countInPrinciple(list, principle) ==
  Len(SelectSeq(list, LAMBDA criterion : criterion.principle = principle))

\* detailedScores, keyed by the principle (the code lower-cases the key)
calculateDetailedScores(passed, failed) ==
  [principle \in Range(principles) |->
     LET passedInPrinciple == countInPrinciple(passed, principle)
         failedInPrinciple == countInPrinciple(failed, principle)
         totalInPrinciple == passedInPrinciple + failedInPrinciple
     IN IF totalInPrinciple > 0
        THEN MathRound(passedInPrinciple * 100, totalInPrinciple)
        ELSE 0]

\* the default value of the targetLevel parameter
DefaultTarget(target) == IF target = Undefined THEN LevelAA ELSE target

EmptyLists ==
  [passedCriteria |-> <<>>, failedCriteria |-> <<>>, notApplicableCriteria |-> <<>>]

\* evaluateCompliance validating the target but evaluating against AAA
evaluateCompliance_fixedTarget(result, targetArg) ==
  LET target == DefaultTarget(targetArg)
      checked == getApplicableCriteria(target)
  IN IF checked.threw THEN Threw
     ELSE LET applicableCriteria == getApplicableCriteria(LevelAAA)
              lists == classifyAll(EmptyLists, applicableCriteria.value, result)
          IN Returned(
               [level |-> calculateComplianceLevel(lists.passedCriteria,
                                                   lists.failedCriteria, LevelAAA),
                passedCriteria |-> lists.passedCriteria,
                failedCriteria |-> lists.failedCriteria,
                notApplicableCriteria |-> lists.notApplicableCriteria,
                overallScore |-> calculateOverallScore(lists.passedCriteria,
                                                       lists.failedCriteria),
                detailedScores |-> calculateDetailedScores(lists.passedCriteria,
                                                           lists.failedCriteria)])

evaluateCompliance(result, targetArg) ==
  LET target == DefaultTarget(targetArg)
      applicableCriteria == getApplicableCriteria(target)
  IN IF applicableCriteria.threw THEN Threw
     ELSE LET lists == classifyAll(EmptyLists, applicableCriteria.value, result)
          IN Returned(
               [level |-> calculateComplianceLevel(lists.passedCriteria,
                                                   lists.failedCriteria, target),
                passedCriteria |-> lists.passedCriteria,
                failedCriteria |-> lists.failedCriteria,
                notApplicableCriteria |-> lists.notApplicableCriteria,
                overallScore |-> calculateOverallScore(lists.passedCriteria,
                                                       lists.failedCriteria),
                detailedScores |-> calculateDetailedScores(lists.passedCriteria,
                                                           lists.failedCriteria)])
----------------------------------------------------------------------------
(* The state machine.                                                      *)

Init ==
  /\ pc = "idle"
  /\ evaluationResult = NoResult
  /\ targetLevel = Undefined
  /\ outcome = NotCalled
  /\ document = NoDocument
  /\ evaluation = NotCalled
  /\ args = NoArgs
  /\ config = NullObject
  /\ toolResponse = NullObject
  /\ validator = ARIAValidator
  /\ validation = NoValidation
  /\ firstValidation = NoValidation
  /\ callsOnOthers = 0
  /\ ruleCheck = NoRuleCheck
  /\ configPaths = <<>>
  /\ cachedSearchPaths = Null
  /\ world = NoSources
  /\ loaderCall = NoLoaderCall
  /\ fetchCall = NoFetchCall

\* a caller of the library calls evaluateCompliance(result, target)
EvaluateCompliance ==
  /\ pc = "idle"
  /\ \E issues \in SeqsUpTo(IssuePool, MaxIssues),
        passedChecks \in SeqsUpTo(CheckPool, MaxChecks),
        target \in TargetPool :
       /\ evaluationResult' = [issues |-> issues, passedChecks |-> passedChecks]
       /\ targetLevel' = target
       /\ outcome' = evaluateCompliance(evaluationResult', target)
  /\ pc' = "returned"
  /\ UNCHANGED <<document, evaluation, args, config, toolResponse>>
  /\ UNCHANGED validatorVars
  /\ UNCHANGED unitVars

\* the CallTool handler receives a check_wcag_compliance request
ToolCall ==
  /\ pc = "idle"
  /\ \E doc \in ToolDocuments, target \in ToolTargetPool :
       /\ document' = doc
       /\ args' = [targetLevel |-> target]
  /\ pc' = "tool_evaluating"
  /\ UNCHANGED <<evaluationResult, targetLevel, outcome, evaluation, config,
                 toolResponse>>
  /\ UNCHANGED validatorVars
  /\ UNCHANGED unitVars

ErrorResponse == [isError |-> TRUE]

\* await evaluator.evaluateHTML(html): a rejection is caught by the handler
ToolEvaluateHTML ==
  /\ pc = "tool_evaluating"
  /\ evaluation' = evaluateHTML(document)
  /\ IF evaluation'.threw
     THEN /\ toolResponse' = ErrorResponse
          /\ pc' = "tool_done"
          /\ UNCHANGED evaluationResult
     ELSE /\ evaluationResult' = evaluation'.value
          /\ pc' = "tool_configuring"
          /\ UNCHANGED toolResponse
  /\ UNCHANGED <<targetLevel, outcome, document, args, config>>
  /\ UNCHANGED validatorVars
  /\ UNCHANGED unitVars

\* await configLoader.getConfig(): a rejection is caught by the handler
ToolGetConfig ==
  /\ pc = "tool_configuring"
  /\ \E file \in ConfigLevels, env \in ConfigLevels, lists \in ConfigCriteria :
       LET loaded == getConfig(config, [file |-> file, env |-> env,
                                        enabledCriteria |-> lists.enabledCriteria,
                                        disabledCriteria |-> lists.disabledCriteria])
       IN IF loaded.threw
          THEN /\ toolResponse' = ErrorResponse
               /\ pc' = "tool_done"
               /\ UNCHANGED config
          ELSE /\ config' = loaded.value
               /\ pc' = "tool_reporting"
               /\ UNCHANGED toolResponse
  /\ UNCHANGED <<evaluationResult, targetLevel, outcome, document, evaluation,
                 args>>
  /\ UNCHANGED validatorVars
  /\ UNCHANGED unitVars

\* the rest of the handler: getWCAGLevel, evaluateCompliance and the report
ToolBuildReport ==
  /\ pc = "tool_reporting"
  /\ targetLevel' = getWCAGLevel(config, args.targetLevel)
  /\ outcome' = evaluateCompliance(evaluationResult, targetLevel')
  /\ toolResponse' =
       IF outcome'.threw THEN ErrorResponse
       ELSE [isError |-> FALSE,
             level |-> outcome'.value.level,
             targetLevel |-> Or(args.targetLevel, LevelAA),
             meetsTarget |-> StringGE(outcome'.value.level,
                                      Or(args.targetLevel, LevelAA))]
  /\ pc' = "tool_done"
  /\ UNCHANGED <<evaluationResult, document, evaluation, args, config>>
  /\ UNCHANGED validatorVars
  /\ UNCHANGED unitVars

Next ==
  \/ EvaluateCompliance
  \/ ToolCall
  \/ ToolEvaluateHTML
  \/ ToolGetConfig
  \/ ToolBuildReport

Spec == Init /\ [][Next]_vars

\* a caller of the library calls evaluateHTML(html)
EvaluateHTML ==
  /\ pc = "idle"
  /\ \E doc \in Documents :
       /\ document' = doc
       /\ evaluation' = evaluateHTML(doc)
  /\ pc' = "evaluated"
  /\ UNCHANGED <<evaluationResult, targetLevel, outcome, args, config,
                 toolResponse>>
  /\ UNCHANGED validatorVars
  /\ UNCHANGED unitVars

NextEvaluator == EvaluateHTML

SpecEvaluator == Init /\ [][NextEvaluator]_vars

\* validate(html) is called on the validator of the server
Validate ==
  /\ pc = "idle"
  /\ \E n \in 0..MaxNodes, family \in Families :
       \E shapes \in [1..n -> family], depths \in Nestings(family, n) :
         LET html == Tree(shapes, depths)
             call == validate(validator, html)
         IN /\ validation' = [html |-> html, outcome |-> call.outcome]
            /\ firstValidation' = validation'
            /\ validator' = call.self
  /\ pc' = "validated"
  /\ UNCHANGED callsOnOthers
  /\ UNCHANGED checkerVars
  /\ UNCHANGED unitVars

\* the same validator is called again, for the same or another document
ValidateAgain ==
  /\ pc = "validated"
  /\ firstValidation.html \in ReuseDocuments
  /\ \E html \in ReuseDocuments :
       LET call == validate(validator, html)
       IN /\ html # firstValidation.html => callsOnOthers < MaxOtherCalls
          /\ validation' = [html |-> html, outcome |-> call.outcome]
          /\ validator' = call.self
          /\ callsOnOthers' = IF html # firstValidation.html
                              THEN callsOnOthers + 1 ELSE callsOnOthers
  /\ UNCHANGED <<pc, firstValidation>>
  /\ UNCHANGED checkerVars
  /\ UNCHANGED unitVars

NextValidator ==
  \/ Validate
  \/ ValidateAgain

SpecValidator == Init /\ [][NextValidator]_vars

----------------------------------------------------------------------------
(* The check of one rule of the registry, called on its own.               *)

\* rule.check($) of a WCAG rule for a document
CheckRule ==
  /\ pc = "idle"
  /\ \E r \in DOMAIN wcagRules, n \in 0..MaxRuleElements :
       \E elements \in [1..n -> RuleFamilies[r]] :
         ruleCheck' = [ruleName |-> wcagRules[r], elements |-> elements,
                       outcome |-> check(wcagRules[r], elements)]
  /\ pc' = "checked"
  /\ UNCHANGED checkerVars
  /\ UNCHANGED validatorVars
  /\ UNCHANGED <<configPaths, cachedSearchPaths, world, loaderCall, fetchCall>>

NextRules == CheckRule

SpecRules == Init /\ [][NextRules]_vars

----------------------------------------------------------------------------
(* The ConfigLoader singleton over its lifetime.                           *)

loaderSelf == ConfigLoaderOf(config, configPaths, cachedSearchPaths)

\* the loader after a call, and the record of the call
LoaderBecomes(self, op, callOutcome, reads) ==
  /\ config' = self.config
  /\ configPaths' = self.configPaths
  /\ cachedSearchPaths' = self.cachedSearchPaths
  /\ loaderCall' = [op |-> op, before |-> config, outcome |-> callOutcome,
                    reads |-> reads]
  /\ pc' = "configured"
  /\ UNCHANGED <<evaluationResult, targetLevel, outcome, document, evaluation,
                 args, toolResponse>>
  /\ UNCHANGED validatorVars
  /\ UNCHANGED <<ruleCheck, fetchCall>>

LoaderRuns == pc \in {"idle", "configured"}

LoadConfig ==
  /\ LoaderRuns
  /\ LET call == loadConfigFrom(loaderSelf, world)
     IN LoaderBecomes(call.self, "loadConfig", call.outcome, call.reads)
  /\ UNCHANGED world

GetConfig ==
  /\ LoaderRuns
  /\ LET call == getConfigFrom(loaderSelf, world)
     IN LoaderBecomes(call.self, "getConfig", call.outcome, call.reads)
  /\ UNCHANGED world

ReloadConfig ==
  /\ LoaderRuns
  /\ LET call == reloadConfig(loaderSelf, world)
     IN LoaderBecomes(call.self, "reloadConfig", call.outcome, call.reads)
  /\ UNCHANGED world

AddConfigPath ==
  /\ LoaderRuns
  /\ LoaderBecomes(addConfigPath(loaderSelf, UserPath), "addConfigPath", NotCalled, 0)
  /\ UNCHANGED world

SetConfigPaths ==
  /\ LoaderRuns
  /\ \E paths \in {<<>>, <<UserPath>>, <<UserPath, UserPath>>} :
       LoaderBecomes(setConfigPaths(loaderSelf, paths), "setConfigPaths", NotCalled, 0)
  /\ UNCHANGED world

\* a file or the environment changes
SourcesChange ==
  /\ LoaderRuns
  /\ \E changed \in ConfigSources :
       /\ changed # world
       /\ world' = changed
  /\ LoaderBecomes(loaderSelf, "none", NotCalled, 0)

NextConfig ==
  \/ LoadConfig
  \/ GetConfig
  \/ ReloadConfig
  \/ AddConfigPath
  \/ SetConfigPaths
  \/ SourcesChange

SpecConfig == Init /\ [][NextConfig]_vars

----------------------------------------------------------------------------
(* One call of DocumentationFetcher.fetchWCAGGuidelines.                   *)

FetchWCAGGuidelines ==
  /\ pc = "idle"
  /\ \E sites \in [DOMAIN wcagUrls -> Sites] :
       fetchCall' = [sites |-> sites, outcome |-> fetchWCAGGuidelines(sites)]
  /\ pc' = "fetched"
  /\ UNCHANGED checkerVars
  /\ UNCHANGED validatorVars
  /\ UNCHANGED <<ruleCheck, configPaths, cachedSearchPaths, world, loaderCall>>

NextFetcher == FetchWCAGGuidelines

SpecFetcher == Init /\ [][NextFetcher]_vars

----------------------------------------------------------------------------
(* Vocabulary of the properties, stated without the checker's operators.   *)

\* None < A < AA < AAA
LevelRank(level) ==
  CASE level = LevelNone -> 0
    [] level = LevelA -> 1
    [] level = LevelAA -> 2
    [] level = LevelAAA -> 3

Levels == {LevelA, LevelAA, LevelAAA}

\* evaluateCompliance was called
Called == outcome.threw \/ outcome.value # NullObject

\* evaluateCompliance was called and returned a report
Reported == ~outcome.threw /\ outcome.value # NullObject

report == outcome.value

\* the target the call was made for: AA when the argument was omitted
RequestedTarget == IF targetLevel = Undefined THEN LevelAA ELSE targetLevel

Members(list) == { list[i] : i \in DOMAIN list }

\* the catalog criteria whose level is at most the given one
CriteriaUpTo(level) ==
  { c \in Members(criteria) : LevelRank(c.level) <= LevelRank(level) }

AllLists ==
  report.passedCriteria \o report.failedCriteria \o report.notApplicableCriteria

FailedAt(level) == \E c \in Members(report.failedCriteria) : c.level = level

PassedAt(level) == \E c \in Members(report.passedCriteria) : c.level = level

\* sub occurs in s
OccursIn(sub, s) ==
  \E start \in 1..(Len(s) - Len(sub) + 1) :
    \A k \in 1..Len(sub) : s[start + k - 1] = sub[k]

\* the lower-case letter of an upper-case one, every other character as is
Lowered(c) ==
  IF \E k \in 1..26 : UpperCase[k] = c
  THEN LowerCase[CHOOSE k \in 1..26 : UpperCase[k] = c]
  ELSE c

\* a criterion name in kebab-case: lower-cased, each space a hyphen
KebabCase(name) == [i \in 1..Len(name) |-> IF name[i] = " " THEN "-" ELSE Lowered(name[i])]

\* for every check name of the model, the criteria it names: by id, or by
\* the kebab-cased name whatever the case of the check
NamedCriteria ==
  [checkName \in CheckNames |->
     { c \in Members(criteria) :
         \/ OccursIn(c.id, checkName)
         \/ OccursIn(KebabCase(c.name), [i \in 1..Len(checkName) |-> Lowered(checkName[i])]) }]

\* some issue of the evaluation has the rule "WCAG <id>"
HasMappedIssue(c) ==
  \E i \in DOMAIN evaluationResult.issues :
    evaluationResult.issues[i].rule = <<"W", "C", "A", "G", " ">> \o c.id

\* some passed check of the evaluation names the criterion
HasMatchingCheck(c) ==
  \E k \in DOMAIN evaluationResult.passedChecks :
    c \in NamedCriteria[evaluationResult.passedChecks[k]]

\* s is num / den rounded to the nearest integer, a half rounded up
IsRounded(s, num, den) == 2 * den * s <= 2 * num + den /\ 2 * num + den < 2 * den * (s + 1)

IsScore(s, passedCount, failedCount) ==
  /\ s \in 0..100
  /\ IF passedCount + failedCount = 0 THEN s = 0
     ELSE IsRounded(s, 100 * passedCount, passedCount + failedCount)

InPrinciple(list, principle) ==
  Cardinality({ i \in DOMAIN list : list[i].principle = principle })

\* what getApplicableCriteria returns for each level, as a set
ApplicableSet == [T \in Levels |-> Members(getApplicableCriteria(T).value)]

ImagesAltTextCheck ==
  <<"W","C","A","G",":"," ","i","m","a","g","e","s","-","a","l","t","-","t","e","x","t">>
FormLabelsCheck ==
  <<"W","C","A","G",":"," ","f","o","r","m","-","l","a","b","e","l","s">>
HeadingsStructureCheck ==
  <<"W","C","A","G",":"," ","h","e","a","d","i","n","g","s","-","s","t","r","u","c","t","u","r","e">>

Criterion111 == criteria[1]

----------------------------------------------------------------------------
(* Properties.                                                             *)

\* C1: after every evaluateCompliance(result, T) the three lists are pairwise
\* disjoint, hold no criterion twice, and together hold exactly the catalog
\* criteria whose level is at most T.
C1_ListsPartitionApplicable ==
  Reported =>
    /\ \A i, j \in DOMAIN AllLists : i # j => AllLists[i].id # AllLists[j].id
    /\ Members(AllLists) = CriteriaUpTo(RequestedTarget)

\* a report with all three lists non-empty, from an evaluation that has the
\* same issue twice
C1_Witness ==
  /\ Reported
  /\ report.passedCriteria # <<>>
  /\ report.failedCriteria # <<>>
  /\ report.notApplicableCriteria # <<>>
  /\ Len(evaluationResult.issues) = 2
  /\ evaluationResult.issues[1] = evaluationResult.issues[2]

\* C2: when some applicable criterion failed, the level is fixed by the
\* lowest level with a failure: None for a failure at A, A for none at A but
\* one at AA, AA for a failure at AAA only.
C2_LowestFailureFixesLevel ==
  (Reported /\ report.failedCriteria # <<>>) =>
    report.level = (IF FailedAt(LevelA) THEN LevelNone
                    ELSE IF FailedAt(LevelAA) THEN LevelA
                    ELSE LevelAA)

\* failures at AA and AAA and none at A: the level is A
C2_Witness ==
  /\ Reported
  /\ FailedAt(LevelAA) /\ FailedAt(LevelAAA) /\ ~FailedAt(LevelA)
  /\ report.level = LevelA

C5_BuiltInCheckPassesCriterion ==
  (/\ Reported
   /\ targetLevel = Undefined
   /\ evaluationResult.issues = <<>>) =>
    /\ ImagesAltTextCheck \in Members(evaluationResult.passedChecks)
         => Criterion111 \in Members(report.passedCriteria)
    /\ evaluationResult.passedChecks = <<ImagesAltTextCheck, FormLabelsCheck>>
         => report.level = LevelA
    /\ {ImagesAltTextCheck, FormLabelsCheck, HeadingsStructureCheck}
         \subseteq Members(evaluationResult.passedChecks)
         => report.detailedScores["Perceivable"] > 0

\* C6: the reported level never exceeds the requested target.
C6_LevelWithinTarget ==
  Reported => LevelRank(report.level) <= LevelRank(RequestedTarget)

\* target A reached although a passed check names an AA criterion
C6_Witness ==
  /\ Reported
  /\ targetLevel = LevelA
  /\ report.level = LevelA
  /\ \E c \in Members(criteria) : c.level = LevelAA /\ HasMatchingCheck(c)

\* C7: in the report of check_wcag_compliance, meetsTarget is true exactly
\* when the level is at or above the target in None < A < AA < AAA.
C7_MeetsTargetIffLevelReachesTarget ==
  (pc = "tool_done" /\ ~toolResponse.isError) =>
    (toolResponse.meetsTarget
       <=> LevelRank(toolResponse.level) >= LevelRank(toolResponse.targetLevel))

\* C8: overallScore is round(100 * |passed| / (|passed| + |failed|)), 0 when
\* both are empty; each principle's score is the same ratio over the passed
\* and failed criteria of the principle; every score is an integer in 0..100.
C8_Scores ==
  Reported =>
    /\ IsScore(report.overallScore, Len(report.passedCriteria), Len(report.failedCriteria))
    /\ DOMAIN report.detailedScores = Members(principles)
    /\ \A p \in Members(principles) :
         IsScore(report.detailedScores[p],
                 InPrinciple(report.passedCriteria, p),
                 InPrinciple(report.failedCriteria, p))

\* two passed and one failed give 67, a principle scores 100 and another,
\* with untested criteria only, scores 0
C8_Witness ==
  /\ Reported
  /\ Len(report.passedCriteria) = 2
  /\ Len(report.failedCriteria) = 1
  /\ report.overallScore = 67
  /\ report.detailedScores["Operable"] = 100
  /\ report.detailedScores["Robust"] = 0
  /\ \E c \in Members(report.notApplicableCriteria) : c.principle = "Robust"

\* C9: a target that is none of A, AA, AAA makes evaluateCompliance throw
\* and return no report; an omitted target is evaluated as AA.
C9_InvalidTargetRejected ==
  Called =>
    /\ targetLevel \notin Levels \cup {Undefined} => outcome = Threw
    /\ targetLevel \in Levels \cup {Undefined} => ~outcome.threw
    /\ (targetLevel = Undefined /\ ~outcome.threw)
         => Members(AllLists) = CriteriaUpTo(LevelAA)

\* a call with the target "aa" and an issue to classify threw
C9_Witness ==
  /\ pc = "returned"
  /\ targetLevel = <<"a", "a">>
  /\ evaluationResult.issues # <<>>
  /\ outcome = Threw

\* C10: the applicable set of T is the catalog criteria of a level <= T; it
\* contains the applicable set of every lower target, is contained in that
\* of every higher one, and for AAA is the whole catalog.
C10_ApplicableSetMonotone ==
  Reported =>
    LET applicable(T) == ApplicableSet[T]
    IN /\ applicable(RequestedTarget) = CriteriaUpTo(RequestedTarget)
       /\ \A T \in Levels :
            /\ LevelRank(T) <= LevelRank(RequestedTarget)
                 => applicable(T) \subseteq applicable(RequestedTarget)
            /\ LevelRank(RequestedTarget) <= LevelRank(T)
                 => applicable(RequestedTarget) \subseteq applicable(T)
       /\ applicable(LevelAAA) = Members(criteria)

\* a report for target A from an evaluation with an issue of an AA criterion
C10_Witness ==
  /\ Reported
  /\ targetLevel = LevelA
  /\ \E c \in Members(criteria) : c.level = LevelAA /\ HasMappedIssue(c)
  /\ Members(AllLists) # Members(criteria)

\* an issue that C11 lets two evaluations differ in for target T: its rule
\* starts with "WCAG" and is "WCAG <id>" for no criterion of a level <= T
AboveTarget(issue, T) ==
  /\ Len(issue.rule) >= 4
  /\ SubSeq(issue.rule, 1, 4) = <<"W", "C", "A", "G">>
  /\ \A c \in CriteriaUpTo(T) : issue.rule # <<"W", "C", "A", "G", " ">> \o c.id

\* the evaluation without the issues above the target
WithoutAboveTarget(result, T) ==
  [result EXCEPT !.issues = SelectSeq(@, LAMBDA issue : ~AboveTarget(issue, T))]

\* C11: the report of an evaluation is the report of the same evaluation
\* without its issues above the target (or of an id outside the catalog):
\* evaluations that differ only in such issues get identical reports.
C11_AboveTargetIssuesIgnored ==
  Reported =>
    outcome = evaluateCompliance(WithoutAboveTarget(evaluationResult, RequestedTarget),
                                 targetLevel)

\* a report of level A for target A from an evaluation that holds an issue
\* of the AAA criterion 1.4.6 and one of an id outside the catalog
C11_Witness ==
  /\ Reported
  /\ targetLevel = LevelA
  /\ report.level = LevelA
  /\ \E i \in DOMAIN evaluationResult.issues :
       evaluationResult.issues[i].rule = <<"W","C","A","G"," ","1",".","4",".","6">>
  /\ \E i \in DOMAIN evaluationResult.issues :
       evaluationResult.issues[i].rule = <<"W","C","A","G","1",".","1",".","1">>

----------------------------------------------------------------------------
(* Vocabulary of the properties of evaluateHTML.                           *)

\* evaluateHTML was called
EvaluationCalled == evaluation.threw \/ evaluation.value # NullObject

\* evaluateHTML was called and resolved with an EvaluationResult
Evaluated == ~evaluation.threw /\ evaluation.value # NullObject

result == evaluation.value

\* the registered rules with the name of their standard
Registry ==
  [i \in DOMAIN wcagRules |-> [standard |-> <<"W","C","A","G">>, ruleName |-> wcagRules[i]]]
  \o [i \in DOMAIN ariaRules |-> [standard |-> <<"A","R","I","A">>, ruleName |-> ariaRules[i]]]

\* "<Standard>: <ruleName>"
Marker(rule) == rule.standard \o <<":"," ">> \o rule.ruleName

\* what the rule's check returned for the document of the call
ReturnedBy(rule) == check(rule.ruleName, document.elements)

\* an issue as its rule pushed it, without the explanation
AsPushed(issue) == [f \in DOMAIN issue \ {"detailedExplanation"} |-> issue[f]]

\* the issues of the result in their order, as pushed, those of axe-core
\* apart
BuiltInIssues ==
  LET kept == SelectSeq(result.issues, LAMBDA issue : issue.standard # "AXE")
  IN [i \in DOMAIN kept |-> AsPushed(kept[i])]

AxeIssues ==
  LET kept == SelectSeq(result.issues, LAMBDA issue : issue.standard = "AXE")
  IN [i \in DOMAIN kept |-> AsPushed(kept[i])]

\* the issues the checks of the rules from position k on returned
RECURSIVE ReturnedFrom(_)
ReturnedFrom(k) ==
  IF k > Len(Registry) THEN <<>>
  ELSE ReturnedBy(Registry[k]).value \o ReturnedFrom(k + 1)

\* the markers of the rules whose check returned no issue
PassedMarkers ==
  LET passed == SelectSeq(Registry, LAMBDA rule : ReturnedBy(rule).value = <<>>)
  IN [i \in DOMAIN passed |-> Marker(passed[i])]

\* C12: in the result of evaluateHTML a rule's marker "<Standard>:
\* <ruleName>" is among passedChecks iff the rule's check returned no issue,
\* and the issues of the built-in rules are those the checks returned: a
\* rule that returned an issue has no marker, whatever else it accepted.
C12_PassedIffNoIssues ==
  Evaluated =>
    /\ \A k \in DOMAIN Registry :
         (\E n \in DOMAIN result.passedChecks : result.passedChecks[n] = Marker(Registry[k]))
           <=> ReturnedBy(Registry[k]).value = <<>>
    /\ result.passedChecks = PassedMarkers
    /\ BuiltInIssues = ReturnedFrom(1)

\* an image without alt next to one with alt: the rule has an issue and no
\* marker, the other rules have theirs
C12_Witness ==
  /\ pc = "evaluated"
  /\ Evaluated
  /\ \E i, j \in DOMAIN document.elements :
       /\ document.elements[i].tag = <<"i","m","g">>
       /\ document.elements[j].tag = <<"i","m","g">>
       /\ "alt" \in DOMAIN document.elements[i].attrs
       /\ "alt" \notin DOMAIN document.elements[j].attrs
  /\ Len(result.passedChecks) = 4
  /\ \A n \in DOMAIN result.passedChecks :
       result.passedChecks[n] # <<"W","C","A","G",":"," ","i","m","a","g","e","s","-","a","l","t","-","t","e","x","t">>
  /\ Len(BuiltInIssues) = 1

StandardNames == {"WCAG", "ARIA", "MDN", "AXE"}
ImpactNames == {"minor", "moderate", "serious", "critical"}

\* how many issues of the result have the value v in the field
NumberWith(field, v) ==
  Cardinality({ i \in DOMAIN result.issues : result.issues[i][field] = v })

RECURSIVE SumOver(_, _)
SumOver(counts, keys) ==
  IF keys = {} THEN 0
  ELSE LET k == CHOOSE x \in keys : TRUE
       IN counts[k] + SumOver(counts, keys \ {k})

\* C13: totalIssues is the number of issues and the sum of errors, warnings
\* and info; byStandard holds for each standard the number of its issues
\* and sums to totalIssues; byImpact holds for each impact the number of its
\* issues, an issue without impact being counted in no bucket; without
\* issues every count is 0 and passedChecks is not empty.
C13_SummaryCounts ==
  Evaluated =>
    LET summary == result.summary
    IN /\ summary.totalIssues = Len(result.issues)
       /\ summary.totalIssues = summary.errors + summary.warnings + summary.info
       /\ summary.errors = NumberWith("type", "error")
       /\ summary.warnings = NumberWith("type", "warning")
       /\ summary.info = NumberWith("type", "info")
       /\ DOMAIN summary.byStandard \subseteq StandardNames
       /\ \A s \in StandardNames :
            IF s \in DOMAIN summary.byStandard
            THEN summary.byStandard[s] = NumberWith("standard", s)
            ELSE NumberWith("standard", s) = 0
       /\ SumOver(summary.byStandard, DOMAIN summary.byStandard) = summary.totalIssues
       /\ DOMAIN summary.byImpact \subseteq ImpactNames
       /\ \A x \in ImpactNames :
            IF x \in DOMAIN summary.byImpact
            THEN summary.byImpact[x] = NumberWith("impact", x)
            ELSE NumberWith("impact", x) = 0
       /\ result.issues = <<>> =>
            /\ SumOver(summary.byStandard, DOMAIN summary.byStandard) = 0
            /\ SumOver(summary.byImpact, DOMAIN summary.byImpact) = 0
            /\ result.passedChecks # <<>>

\* a result with a warning of a rule and an axe-core issue whose impact is
\* null: two issues, one impact bucket
C13_Witness ==
  /\ pc = "evaluated"
  /\ Evaluated
  /\ result.summary.totalIssues = 2
  /\ result.summary.warnings = 1
  /\ result.summary.errors = 1
  /\ \E i \in DOMAIN result.issues : result.issues[i].impact = NullValue
  /\ DOMAIN result.summary.byImpact = {"moderate"}
  /\ DOMAIN result.summary.byStandard = {"WCAG", "AXE"}

\* axe-core fails on the document: the DOM for it cannot be built, axe.run
\* rejects, or a violation has no node to translate
AxeFails ==
  \/ document.axe.kind \in {"dom_throws", "run_rejects"}
  \/ \E i \in DOMAIN document.axe.violations : document.axe.violations[i].nodes = <<>>

\* C14: when axe-core fails, evaluateHTML resolves with exactly the issues
\* and passed checks of the built-in rules and no AXE issue; when it
\* succeeds, each violation is one AXE issue with the impact of the
\* violation's first node.
C14_AxeFailureIsolated ==
  EvaluationCalled =>
    /\ AxeFails =>
         /\ Evaluated
         /\ AxeIssues = <<>>
         /\ BuiltInIssues = ReturnedFrom(1)
         /\ result.passedChecks = PassedMarkers
    /\ (~AxeFails /\ Evaluated) =>
         /\ Len(AxeIssues) = Len(document.axe.violations)
         /\ \A i \in DOMAIN AxeIssues :
              /\ AxeIssues[i].rule = document.axe.violations[i].id
              /\ AxeIssues[i].impact = document.axe.violations[i].nodes[1].impact

\* C15: every call of evaluateHTML resolves with a complete result, and an
\* exception of one rule's check leaves the issues and passed checks of the
\* other rules in it.
C15_RuleFaultIsolated ==
  EvaluationCalled =>
    /\ Evaluated
    /\ \A k \in DOMAIN Registry :
         (~ReturnedBy(Registry[k]).threw /\ ReturnedBy(Registry[k]).value = <<>>)
           => \E n \in DOMAIN result.passedChecks :
                result.passedChecks[n] = Marker(Registry[k])

----------------------------------------------------------------------------
(* Vocabulary of the properties of ARIAValidator.validate.                 *)

\* validate was called
ValidationCalled ==
  validation.outcome.threw \/ validation.outcome.value # NullObject

\* validate was called and returned a result
Validated == ~validation.outcome.threw /\ validation.outcome.value # NullObject

validated == validation.outcome.value

\* the elements of the validated document
Nodes == DOMAIN validation.html

Node(i) == validation.html[i]

Carries(i, name) == name \in DOMAIN Node(i).attrs

\* the number of issues with this message raised for element i
IssuesOn(i, message) ==
  Cardinality({ k \in DOMAIN validated.issues :
                  /\ validated.issues[k].element = i
                  /\ validated.issues[k].message = message })

\* the number of valid-usage notes for element i
NotesOn(i) ==
  Cardinality({ k \in DOMAIN validated.validUsages : validated.validUsages[k].element = i })

\* element j encloses element i
IsAncestor(j, i) ==
  /\ j < i
  /\ \A k \in (j + 1)..i : Node(k).depth > Node(j).depth

\* C16: an element whose role is not in the catalog gets exactly one
\* 'Invalid ARIA role' error, no required-property error, no containment
\* error and no valid-usage note; an element whose role is in the catalog
\* gets exactly one valid-usage note and, for each required property of the
\* role, one 'Missing required property' error naming it iff the element
\* does not carry it.
C16_RolePhase ==
  Validated =>
    \A i \in Nodes :
      Carries(i, "role") =>
        LET role == Node(i).attrs["role"]
        IN IF role \notin DOMAIN ARIARoles
           THEN /\ IssuesOn(i, "Invalid ARIA role") = 1
                /\ IssuesOn(i, "Missing required property") = 0
                /\ IssuesOn(i, "must be contained within one of") = 0
                /\ NotesOn(i) = 0
           ELSE /\ IssuesOn(i, "Invalid ARIA role") = 0
                /\ NotesOn(i) = 1
                /\ \A n \in DOMAIN ARIARoles[role].requiredProperties :
                     LET prop == ARIARoles[role].requiredProperties[n]
                     IN Cardinality({ k \in DOMAIN validated.issues :
                          /\ validated.issues[k].element = i
                          /\ validated.issues[k].message = "Missing required property"
                          /\ validated.issues[k].property = prop
                          /\ validated.issues[k].role = role })
                        = IF Carries(i, prop) THEN 0 ELSE 1

\* a checkbox without aria-checked, one with it and an element with a role
\* outside the catalog: one missing-property error, one invalid-role error
\* and two valid-usage notes
C16_Witness ==
  /\ Validated
  /\ Len(validation.html) = 3
  /\ \E i, j, k \in Nodes :
       /\ Carries(i, "role") /\ Node(i).attrs["role"] = <<"c","h","e","c","k","b","o","x">>
       /\ ~Carries(i, "aria-checked")
       /\ IssuesOn(i, "Missing required property") = 1
       /\ Carries(j, "role") /\ Node(j).attrs["role"] = <<"c","h","e","c","k","b","o","x">>
       /\ Carries(j, "aria-checked")
       /\ IssuesOn(j, "Missing required property") = 0
       /\ Carries(k, "role") /\ Node(k).attrs["role"] = <<"m","e","n","u","b","a","r">>
       /\ IssuesOn(k, "Invalid ARIA role") = 1
  /\ Len(validated.validUsages) = 2

\* C17: an element whose role declares requiredParent gets exactly one
\* containment error naming its role iff none of the elements that enclose
\* it, at any depth, carries one of the required parent roles; with such an
\* ancestor it gets none.
C17_Containment ==
  Validated =>
    \A i \in Nodes :
      (/\ Carries(i, "role")
       /\ Node(i).attrs["role"] \in DOMAIN ARIARoles
       /\ "requiredParent" \in DOMAIN ARIARoles[Node(i).attrs["role"]]) =>
        LET role == Node(i).attrs["role"]
            parents == Range(ARIARoles[role].requiredParent)
            contained == \E j \in Nodes :
                           /\ IsAncestor(j, i)
                           /\ Carries(j, "role")
                           /\ Node(j).attrs["role"] \in parents
        IN /\ IssuesOn(i, "must be contained within one of")
                = IF contained THEN 0 ELSE 1
           /\ \A k \in DOMAIN validated.issues :
                (/\ validated.issues[k].element = i
                 /\ validated.issues[k].message = "must be contained within one of")
                  => validated.issues[k].role = role

\* a tab two levels below a tablist: no containment error
C17_Witness ==
  /\ Validated
  /\ Len(validation.html) = 3
  /\ Node(1).attrs = ("role" :> <<"t","a","b","l","i","s","t">>)
  /\ Node(2).attrs = NoAttrs /\ Node(2).depth = 1
  /\ Node(3).attrs = ("role" :> <<"t","a","b">>) /\ Node(3).depth = 2
  /\ validated.issues = <<>>

\* the ids an aria-labelledby value lists: its pieces between spaces
ListedIds(value) == SelectSeq(Split(value, " "), LAMBDA piece : piece # <<>>)

\* C18: validate returns a result for every document, and in it each id
\* listed by a non-empty aria-labelledby value yields one 'references
\* non-existent ID' error iff no element has that id, also for values with
\* repeated spaces and for ids with characters that are special in
\* selectors.
C18_BrokenReferencesReported ==
  ValidationCalled =>
    /\ Validated
    /\ \A i \in Nodes :
         (Carries(i, "aria-labelledby") /\ Node(i).attrs["aria-labelledby"] # <<>>) =>
           LET ids == ListedIds(Node(i).attrs["aria-labelledby"])
           IN \A n \in DOMAIN ids :
                LET resolves == \E j \in Nodes :
                                  Carries(j, "id") /\ Node(j).attrs["id"] = ids[n]
                    listed == Cardinality({ m \in DOMAIN ids : ids[m] = ids[n] })
                IN Cardinality({ k \in DOMAIN validated.issues :
                     /\ validated.issues[k].element = i
                     /\ validated.issues[k].message
                          = "aria-labelledby references non-existent ID"
                     /\ validated.issues[k].id = ids[n] })
                   = IF resolves THEN 0 ELSE listed

\* the elements that carry the landmark role
Carriers(landmark) ==
  { i \in Nodes : Carries(i, "role") /\ Node(i).attrs["role"] = landmark }

\* the element has no label: neither aria-label nor aria-labelledby holds
\* a value
Unlabelled(i) ==
  /\ ~Carries(i, "aria-label") \/ Node(i).attrs["aria-label"] = <<>>
  /\ ~Carries(i, "aria-labelledby") \/ Node(i).attrs["aria-labelledby"] = <<>>

\* the number of landmark issues of this type and message for the landmark
LandmarkIssues(type, message, landmark) ==
  Cardinality({ k \in DOMAIN validated.issues :
                  /\ validated.issues[k].type = type
                  /\ validated.issues[k].message = message
                  /\ validated.issues[k].role = landmark })

\* C19: there is exactly one 'Multiple main landmarks' error iff at least
\* two elements carry role="main"; for navigation, complementary, banner
\* and contentinfo there is exactly one 'Multiple <landmark> landmarks
\* without unique labels' warning iff at least two elements carry the role
\* and one of them has neither an aria-label nor an aria-labelledby value;
\* a landmark used at most once has no landmark issue.
C19_Landmarks ==
  Validated =>
    /\ LandmarkIssues("error", "Multiple main landmarks found", <<"m","a","i","n">>)
         = IF Cardinality(Carriers(<<"m","a","i","n">>)) >= 2 THEN 1 ELSE 0
    /\ LandmarkIssues("warning", "Multiple landmarks without unique labels", <<"m","a","i","n">>) = 0
    /\ \A landmark \in {<<"n","a","v","i","g","a","t","i","o","n">>, <<"c","o","m","p","l","e","m","e","n","t","a","r","y">>, <<"b","a","n","n","e","r">>, <<"c","o","n","t","e","n","t","i","n","f","o">>} :
         /\ LandmarkIssues("warning", "Multiple landmarks without unique labels", landmark)
              = IF /\ Cardinality(Carriers(landmark)) >= 2
                   /\ \E i \in Carriers(landmark) : Unlabelled(i)
                THEN 1 ELSE 0
         /\ LandmarkIssues("error", "Multiple main landmarks found", landmark) = 0

\* three navigation landmarks of which one has no label, next to a document
\* order in which the labelled ones come first: one warning
C19_Witness ==
  /\ Validated
  /\ Cardinality(Carriers(<<"n","a","v","i","g","a","t","i","o","n">>)) = 3
  /\ Carries(1, "aria-label") /\ Node(1).attrs["aria-label"] = <<"x">>
  /\ Carries(2, "aria-label") /\ Node(2).attrs["aria-label"] = <<"x">>
  /\ Unlabelled(3)
  /\ LandmarkIssues("warning", "Multiple landmarks without unique labels", <<"n","a","v","i","g","a","t","i","o","n">>) = 1

\* C20: no validate call changes the catalogs of the validator, and a call
\* on the document of the first call does what the first call did (the same
\* issues in the same order, the same valid usages and statistics), however
\* many calls on other documents lie between them.
C20_ValidatePure ==
  /\ validator = ARIAValidator
  /\ (ValidationCalled /\ validation.html = firstValidation.html)
       => validation.outcome = firstValidation.outcome

\* the validator was called for an element with a role outside the
\* catalog, then for two other documents, then for the first one again
C20_Witness ==
  /\ Validated
  /\ callsOnOthers = 2
  /\ validation.html = firstValidation.html
  /\ Len(validation.html) = 1
  /\ IssuesOn(1, "Invalid ARIA role") = 1

----------------------------------------------------------------------------
(* Vocabulary of the properties of the checks of the WCAG rules.           *)

\* the check of this rule was called
RuleChecked(ruleName) ==
  /\ pc = "checked"
  /\ ruleCheck.ruleName = ruleName

\* the issues the check returned
returned == ruleCheck.outcome.value

\* the elements of the checked document and their tags
Checked(i) == ruleCheck.elements[i]

Has(i, name) == name \in DOMAIN Checked(i).attrs

\* the issues are raised in document order, at most one per element
InDocumentOrder ==
  \A k \in DOMAIN returned :
    k > 1 => returned[k - 1].element < returned[k].element

\* the elements the returned issues are raised for
Flagged == { returned[k].element : k \in DOMAIN returned }

\* every returned issue has these values
EveryIssueIs(type, rule, level, impact) ==
  \A k \in DOMAIN returned :
    /\ returned[k].type = type
    /\ returned[k].rule = rule
    /\ returned[k].standard = "WCAG"
    /\ returned[k].level = level
    /\ returned[k].impact = impact

LevelOfHeading == <<"h","1">> :> 1 @@ <<"h","2">> :> 2 @@ <<"h","3">> :> 3 @@ <<"h","4">> :> 4 @@ <<"h","5">> :> 5 @@ <<"h","6">> :> 6

Headings == { i \in DOMAIN ruleCheck.elements : Checked(i).tag \in DOMAIN LevelOfHeading }

LevelAt(i) == LevelOfHeading[Checked(i).tag]

\* the heading immediately before heading i, 0 if i is the first one
HeadingBefore(i) ==
  IF \E j \in Headings : j < i
  THEN CHOOSE j \in Headings : j < i /\ \A h \in Headings : h < i => h <= j
  ELSE 0

\* heading i skips a level after the heading before it
SkipsLevel(i) ==
  /\ HeadingBefore(i) # 0
  /\ LevelAt(i) > LevelAt(HeadingBefore(i)) + 1

DigitOf == <<<<"1">>, <<"2">>, <<"3">>, <<"4">>, <<"5">>, <<"6">>>>

\* C21: headings-structure returns, in document order, exactly one warning
\* (rule 'WCAG 1.3.1', level A, impact moderate, message with 'hN after hM')
\* for each heading whose level N exceeds the level M of the heading
\* immediately before it by more than one, and nothing else: the first
\* heading, a decrease of any size and a step of one are never flagged.
C21_HeadingSkips ==
  RuleChecked(wcagRules[2]) =>
    /\ ~ruleCheck.outcome.threw
    /\ InDocumentOrder
    /\ Flagged = { i \in Headings : SkipsLevel(i) }
    /\ EveryIssueIs("warning", <<"W","C","A","G"," ","1",".","3",".","1">>, "A", "moderate")
    /\ \A k \in DOMAIN returned :
         Includes(returned[k].message,
                  <<"h">> \o DigitOf[LevelAt(returned[k].element)] \o <<" ","a","f","t","e","r"," ","h">>
                  \o DigitOf[LevelAt(HeadingBefore(returned[k].element))])

\* h1, h3, h4: one warning, for the h3 after the h1; the h4 is compared
\* with the h3 only
C21_Witness ==
  /\ RuleChecked(wcagRules[2])
  /\ Len(ruleCheck.elements) = 3
  /\ Checked(1).tag = <<"h","1">> /\ Checked(2).tag = <<"h","3">> /\ Checked(3).tag = <<"h","4">>
  /\ Len(returned) = 1
  /\ returned[1].element = 2
  /\ Includes(returned[1].message, <<"h","3"," ","a","f","t","e","r"," ","h","1">>)

\* the element is an img
IsImage(i) == Checked(i).tag = <<"i","m","g">>

\* the role of the element names presentation
PresentationLike(i) ==
  Has(i, "role") /\ Includes(Checked(i).attrs["role"], <<"p","r","e","s","e","n","t","a","t","i","o","n">>)

\* C23: images-alt-text returns, in document order, exactly one error (rule
\* 'WCAG 1.1.1', level A, impact critical) for each img that has no alt
\* attribute and no presentation-like role, and nothing else: an img with
\* an alt attribute, also the empty alt="", or with a presentation-like role
\* has no issue.
C23_ImagesAltText ==
  RuleChecked(wcagRules[1]) =>
    /\ ~ruleCheck.outcome.threw
    /\ InDocumentOrder
    /\ Flagged = { i \in DOMAIN ruleCheck.elements :
                     IsImage(i) /\ ~Has(i, "alt") /\ ~PresentationLike(i) }
    /\ EveryIssueIs("error", <<"W","C","A","G"," ","1",".","1",".","1">>, "A", "critical")

\* <img src="x.jpg"> before an img with alt="" and one with
\* role="presentation": exactly one error, for the first
C23_Witness ==
  /\ RuleChecked(wcagRules[1])
  /\ Len(ruleCheck.elements) = 3
  /\ IsImage(1) /\ DOMAIN Checked(1).attrs = {"src"}
  /\ IsImage(2) /\ Has(2, "alt") /\ Checked(2).attrs["alt"] = <<>>
  /\ IsImage(3) /\ ~Has(3, "alt") /\ PresentationLike(3)
  /\ Len(returned) = 1
  /\ returned[1].element = 1
  /\ returned[1].impact = "critical"

\* the element is a form control that needs a label
IsLabelledControl(i) ==
  /\ Checked(i).tag \in {<<"i","n","p","u","t">>, <<"s","e","l","e","c","t">>, <<"t","e","x","t","a","r","e","a">>}
  /\ ~(Has(i, "type") /\ Checked(i).attrs["type"] \in {<<"s","u","b","m","i","t">>, <<"b","u","t","t","o","n">>, <<"h","i","d","d","e","n">>})

\* a label element names the id of the control in its for attribute
HasLabelFor(i) ==
  /\ Has(i, "id")
  /\ Checked(i).attrs["id"] # <<>>
  /\ \E j \in DOMAIN ruleCheck.elements :
       /\ Checked(j).tag = <<"l","a","b","e","l">>
       /\ Has(j, "for")
       /\ Checked(j).attrs["for"] = Checked(i).attrs["id"]

\* the attribute holds a value
HasValue(i, name) == Has(i, name) /\ Checked(i).attrs[name] # <<>>

\* C22: form-labels returns, in document order, exactly one error (rule
\* 'WCAG 1.3.1', level A, impact critical) for each input, select or
\* textarea whose type is not submit, button or hidden and which has no
\* label element for its id, no aria-label and no aria-labelledby, and
\* nothing else.
C22_FormLabels ==
  RuleChecked(wcagRules[3]) =>
    /\ ~ruleCheck.outcome.threw
    /\ InDocumentOrder
    /\ Flagged = { i \in DOMAIN ruleCheck.elements :
                     /\ IsLabelledControl(i)
                     /\ ~HasLabelFor(i)
                     /\ ~HasValue(i, "aria-label")
                     /\ ~HasValue(i, "aria-labelledby") }
    /\ EveryIssueIs("error", <<"W","C","A","G"," ","1",".","3",".","1">>, "A", "critical")

----------------------------------------------------------------------------
(* Vocabulary of the properties of the check_wcag_compliance tool.         *)

\* the handler answered a request with a report
ToolReported ==
  /\ pc = "tool_done"
  /\ ~toolResponse.isError
  /\ Reported

\* the loaded configuration disables the criterion: it is in the disabled
\* list, or a non-empty enabled list does not hold it
DisabledByConfig(id) ==
  /\ config # NullObject
  /\ \/ id \in Members(config.wcag.disabledCriteria)
     \/ /\ config.wcag.enabledCriteria # <<>>
        /\ id \notin Members(config.wcag.enabledCriteria)

\* C24: in the answer of check_wcag_compliance a criterion that the loaded
\* configuration disables has no issue in the evaluation result and is not
\* among failedCriteria.
C24_DisabledCriteriaSkipped ==
  ToolReported =>
    \A c \in Members(criteria) :
      DisabledByConfig(c.id) =>
        /\ ~HasMappedIssue(c)
        /\ c \notin Members(report.failedCriteria)

\* the request names a target level
TargetGiven == args.targetLevel \notin {Undefined, <<>>}

\* the level the request is to be judged against: the argument, else the
\* configured default level, else AA
EffectiveTarget ==
  IF TargetGiven THEN args.targetLevel
  ELSE IF config # NullObject THEN config.wcag.defaultLevel
  ELSE LevelAA

\* C25: check_wcag_compliance passes to evaluateCompliance the level of the
\* argument, else the configured default level, else AA, and the report
\* names that same level as targetLevel and judges meetsTarget against it.
C25_OneTargetLevel ==
  ToolReported =>
    /\ targetLevel = EffectiveTarget
    /\ toolResponse.targetLevel = targetLevel
    /\ toolResponse.meetsTarget = StringGE(report.level, targetLevel)

----------------------------------------------------------------------------
(* Vocabulary of the properties of the ConfigLoader.                       *)

\* a configuration was cached when the last call began
WasCached == loaderCall.before # NullObject

\* the last call is one that asks for the configuration without a reload
AsksForConfig == loaderCall.op \in {"loadConfig", "getConfig"}

\* the paths searched for a config file, in their priority
SearchOrder == configPaths \o <<ProjectPath>>

\* the level the files and the environment give now: the environment, else
\* the first file that exists, else AA
FreshLevel ==
  LET existing == { k \in DOMAIN SearchOrder : world.files[SearchOrder[k]] # Null }
      first == CHOOSE k \in existing : \A other \in existing : k <= other
  IN IF world.env # Undefined THEN world.env
     ELSE IF existing = {} THEN LevelAA
     ELSE world.files[SearchOrder[first]]

\* C26: once a configuration is cached, loadConfig and getConfig return
\* that configuration without reading a file or the environment, and no
\* addConfigPath, setConfigPaths or change of the files or the environment
\* touches it; reloadConfig, like a call without a cached configuration,
\* reads the sources again and caches what they give now; a load that fails
\* validation caches nothing.
C26_ConfigCached ==
  /\ (AsksForConfig /\ WasCached) =>
       /\ ~loaderCall.outcome.threw
       /\ loaderCall.outcome.value = loaderCall.before
       /\ loaderCall.reads = 0
       /\ config = loaderCall.before
  /\ loaderCall.op \in {"addConfigPath", "setConfigPaths", "none"} =>
       config = loaderCall.before
  /\ (loaderCall.op = "reloadConfig" \/ (AsksForConfig /\ ~WasCached)) =>
       /\ loaderCall.reads > 0
       /\ loaderCall.outcome.threw <=> FreshLevel \notin Levels
       /\ loaderCall.outcome.threw => config = NullObject
       /\ ~loaderCall.outcome.threw =>
            /\ config = loaderCall.outcome.value
            /\ config.wcag.defaultLevel = FreshLevel

\* getConfig returns the cached level A without a read although a path was
\* added since and the environment now sets AAA and the file of the path
\* holds a level that is none
C26_Witness ==
  /\ loaderCall.op = "getConfig"
  /\ WasCached
  /\ loaderCall.reads = 0
  /\ config.wcag.defaultLevel = LevelA
  /\ configPaths = <<UserPath>>
  /\ world.env = LevelAAA
  /\ world.files[UserPath] = <<"a", "a">>

----------------------------------------------------------------------------
(* Vocabulary of the properties of the DocumentationFetcher.               *)

GuidelinesFetched == pc = "fetched"

\* the URLs whose fetchDocument call returned
SuccessfulFetches ==
  { k \in DOMAIN fetchCall.sites : ~fetchDocument(fetchCall.sites[k]).outcome.threw }

\* C27: fetchWCAGGuidelines never rejects, and the map it returns has as
\* many entries as there were successful fetches (2 when 2 of the 3 URLs
\* succeed).
C27_OneEntryPerSuccess ==
  GuidelinesFetched =>
    /\ ~fetchCall.outcome.threw
    /\ Len(fetchCall.outcome.value) = Cardinality(SuccessfulFetches)

----------------------------------------------------------------------------
(* Properties of the level and of the pipeline of the tool.                *)

\* C28: a report with a level other than None has no failed level-A
\* criterion and at least one passed level-A criterion, whether the level
\* comes from a failure at AA or AAA or from the passed criteria.
C28_LevelNeedsPassedA ==
  (Reported /\ report.level # LevelNone) =>
    /\ ~FailedAt(LevelA)
    /\ PassedAt(LevelA)

Criterion131 == CHOOSE c \in Members(criteria) : c.id = <<"1",".","3",".","1">>

----------------------------------------------------------------------------
(* The statistics of validate.                                             *)

\* the ARIA state properties that some element of the document carries
StatesPresent ==
  { state \in Range(validator.states) : \E i \in Nodes : Carries(i, state) }

\* C30: after validate, statistics.statesUsed is the set of the ARIA state
\* properties (aria-checked, aria-hidden, aria-expanded, ...) that at least
\* one element of the document carries.
C30_StatesUsed ==
  Validated => Range(validated.statistics.statesUsed) = StatesPresent

=============================================================================
